---- MODULE Spec2Model ----
(***************************************************************************)
(* A model of the pixelflut server: the pixmap coordinator (PixmapActor),  *)
(* the change tracker (Tracker / TrackerActor) with its watch channel, the *)
(* AutoEncoder and the TCP connection loop.                                *)
(*                                                                         *)
(* Every actor handles one message at a time, so each handler is one       *)
(* action.  A request that a task has sent and whose answer it awaits is   *)
(* recorded in the task's program counter; the coordinator picks any       *)
(* awaiting task (the order in which different tasks enqueue is free).     *)
(* The tracker's mailbox is an explicit FIFO queue, because the order of   *)
(* forwarded pixel changes matters there.                                  *)
(***************************************************************************)
EXTENDS Integers, Sequences, FiniteSets, TLC

\* ------------------------------------------------------------------ bounds
\* pixmap width and height (the --width / --height of the server command)
W == 2
H == 1
\* number of TCP connections that exist
NumConns == 2
\* total number of request frames the clients send
MaxReqs == 3

Conns == 1..NumConns

\* ------------------------------------------------------------------ colors
Black == <<0, 0, 0>>
Colors == {<<1, 2, 3>>, <<4, 5, 6>>}

\* ------------------------------------------------------------------ pixmap
\* A pixmap is its row-major sequence of W*H colors (TLA+ sequences start at 1).
NewPixmap == [i \in 1..(W * H) |-> Black]

InBounds(x, y) == x < W /\ y < H

PixmapIndex(x, y) == y * W + x

GetPixel(data, x, y) ==
    IF InBounds(x, y)
    THEN [ok |-> TRUE, color |-> data[PixmapIndex(x, y) + 1]]
    ELSE [ok |-> FALSE, color |-> Black]

SetPixel(data, x, y, color) ==
    IF InBounds(x, y)
    THEN [ok |-> TRUE, data |-> [data EXCEPT ![PixmapIndex(x, y) + 1] = color]]
    ELSE [ok |-> FALSE, data |-> data]

GetSize == <<W, H>>

\* ------------------------------------------------------------------ requests
\* The coordinates a client puts into a PX request: the first and the last
\* pixel and the two nearest coordinates outside the pixmap.
ReqCoords == {<<0, 0>>, <<W - 1, H - 1>>, <<W, 0>>, <<0, H>>}

Requests ==
    {[kind |-> "Size"], [kind |-> "Help"], [kind |-> "Subscribe"],
     [kind |-> "Unsubscribe"], [kind |-> "Malformed"]}
    \cup {[kind |-> "PxGet", x |-> p[1], y |-> p[2]] : p \in ReqCoords}
    \cup {[kind |-> "PxSet", x |-> p[1], y |-> p[2], color |-> c] :
            p \in ReqCoords, c \in Colors}

NoRequest == [kind |-> "None"]

\* ------------------------------------------------------------------ frames
NoFrame == [kind |-> "NoFrame"]
ErrorFrame(why) == [kind |-> "Error", why |-> why]
SizeFrame(w, h) == [kind |-> "Size", w |-> w, h |-> h]
HelpFrame == [kind |-> "Help"]
PxFrame(x, y, color) == [kind |-> "Px", x |-> x, y |-> y, color |-> color]
SubscribedFrame == [kind |-> "Subscribed"]
UnsubscribedFrame == [kind |-> "Unsubscribed"]

\* ------------------------------------------------------------------ tracker
\* Tracker::add builds the change with pixmap_index = y * width + x.
TrackedChange(x, y, color) ==
    [pixmap_index |-> y * W + x, coordinates |-> <<x, y>>, color |-> color]

\* HashSet::insert with TrackedChange's Eq and Hash, which look at pixmap_index
\* only: a value equal to one that the set holds is not inserted and the held
\* value stays as it is.
HashSetInsert(set, v) ==
    IF \E e \in set : e.pixmap_index = v.pixmap_index THEN set ELSE set \cup {v}

TrackerAdd(chs, x, y, color) == HashSetInsert(chs, TrackedChange(x, y, color))

\* HashSet::drain yields every element once, in an order the set chooses.
Drain(set) ==
    {s \in [1..Cardinality(set) -> set] :
        \A i, j \in 1..Cardinality(set) : i # j => s[i] # s[j]}

\* A flush that mixes up the coordinates of a change.
ChangeMsg_Swapped(ch) ==
    [x |-> ch.coordinates[2], y |-> ch.coordinates[1], color |-> ch.color]

\* The SetPixelMsg that the flush builds from a drained change.
ChangeMsg(ch) ==
    [x |-> ch.coordinates[1], y |-> ch.coordinates[2], color |-> ch.color]

\* ------------------------------------------------------------------ encodings
\* A packing with blue in the lowest byte and red in the third.
ColorRefIntoU32_RedHigh(c) == c[1] * 65536 + c[2] * 256 + c[3]

\* Into<u32> for &Color: red in the lowest byte
ColorRefIntoU32(c) == c[1] + c[2] * 256 + c[3] * 65536

ToLeBytes(v) ==
    <<v % 256, (v \div 256) % 256, (v \div 65536) % 256, (v \div 16777216) % 256>>

\* base64 (standard alphabet, padded) as the sequence of its characters'
\* values: 0..63 for a digit of the alphabet and 64 for the padding '='
Base64Pad == 64

Base64Encode(bytes) ==
    LET n == Len(bytes)
        byteAt(i) == IF i <= n THEN bytes[i] ELSE 0
        group(g) == byteAt(3 * g + 1) * 65536 + byteAt(3 * g + 2) * 256 + byteAt(3 * g + 3)
        digit(g, j) ==
            CASE j = 0 -> (group(g) \div 262144) % 64
              [] j = 1 -> (group(g) \div 4096) % 64
              [] j = 2 -> IF 3 * g + 2 > n THEN Base64Pad ELSE (group(g) \div 64) % 64
              [] j = 3 -> IF 3 * g + 3 > n THEN Base64Pad ELSE group(g) % 64
    IN  [k \in 1..(4 * ((n + 2) \div 3)) |-> digit((k - 1) \div 4, (k - 1) % 4)]

\* Rgb64Encoder::encode: three bytes per pixel, then base64
Rgb64Bytes(pixmap_data) ==
    [k \in 1..(3 * Len(pixmap_data)) |->
        ToLeBytes(ColorRefIntoU32(pixmap_data[((k - 1) \div 3) + 1]))[((k - 1) % 3) + 1]]

Rgb64Encode(pixmap_width, pixmap_height, pixmap_data) ==
    Base64Encode(Rgb64Bytes(pixmap_data))

\* Four bytes per pixel, all four taken from the packed color.
Rgba64Bytes_PackedAlpha(pixmap_data) ==
    [k \in 1..(4 * Len(pixmap_data)) |->
        ToLeBytes(ColorRefIntoU32(pixmap_data[((k - 1) \div 4) + 1]))[((k - 1) % 4) + 1]]

\* Rgba64Encoder::encode: three bytes per pixel and a fourth of 255, then base64
Rgba64Bytes(pixmap_data) ==
    [k \in 1..(4 * Len(pixmap_data)) |->
        IF (k - 1) % 4 = 3
        THEN 255
        ELSE ToLeBytes(ColorRefIntoU32(pixmap_data[((k - 1) \div 4) + 1]))[((k - 1) % 4) + 1]]

Rgba64Encode(pixmap_width, pixmap_height, pixmap_data) ==
    Base64Encode(Rgba64Bytes(pixmap_data))

\* The AutoEncoders that main starts.
Encoders == {"rgb64", "rgba64"}

Encode(e, pixmap_width, pixmap_height, pixmap_data) ==
    IF e = "rgb64"
    THEN Rgb64Encode(pixmap_width, pixmap_height, pixmap_data)
    ELSE Rgba64Encode(pixmap_width, pixmap_height, pixmap_data)

\* ------------------------------------------------------------------ state
VARIABLES
    pixmap,             \* PixmapActor.pixmap: the row-major colors
    spawned,            \* futures the coordinator spawned whose SetPixelMsg is not yet sent
    setCount,           \* number of SetPixelMsg the coordinator has handled
    trackerMailbox,     \* the TrackerActor's mailbox (FIFO)
    changes,            \* Tracker.changes
    trigger_task,       \* the tracker's interval loop: "tick" or "sent"
    publisherValue,     \* the value held by the watch channel
    trackerLastSeq,     \* history: sequence number of the last change the tracker handled
    pc,                 \* per connection: where its task stands
    request,            \* per connection: the request being handled
    response,           \* per connection: the response frame not yet written
    subscribed,         \* per connection: client_preferences.subscribed
    data_subscription,  \* per connection: the field data_subscription ("none", "seen", "unseen")
    held,               \* per connection: the receiver taken out of the field for one iteration
    out,                \* per connection: the frames of its latest write (a response with
                        \* what follows it in the iteration, or a pushed batch)
    delivered,          \* history: PX lines pushed to the connection since it subscribed
    missed,             \* history: a value of the channel was replaced before the
                        \* connection had seen it
    owed,               \* history: writes applied since the connection subscribed
    encPc,              \* per encoder: where its interval future / handler stands
    encData,            \* per encoder: the raw data the coordinator answered with
    cache,              \* per encoder: AutoEncoder.cache
    reqCount,           \* number of request frames read so far
    written,            \* history: per pixel index the color of its last applied SetPixel
    applied,            \* history: the (x, y, color) of every SetPixel that was applied
    lastAdded,          \* history: per coordinates the color of the last add since the drain
    stream,             \* history: per connection the SetPixel frames read from its byte stream
    convColor,          \* the color handed to the conversion into u32
    convWord,           \* the u32 the conversion produced
    convBack,           \* the color converted back from that u32
    udpSocket,          \* the datagram waiting in the UDP socket
    udpPc,              \* where UdpServer::listen stands
    udpBuffer,          \* the buffer handed to process_received
    udpOrigin,          \* the address recv_from returned
    udpReceived,        \* history: the datagram the last recv_from took from the socket
    udpDispatched,      \* history: the frames of that datagram handed to handle_frame
    udpSent,            \* history: the send_to calls made for that datagram
    listenPc,           \* where TcpServer::listen stands: "accept" or "panicked"
    read_buffer,        \* per connection: TcpConnection.read_buffer, the frames in it
    sockIn,             \* per connection: what the peer has sent and read_buf has not taken
    peerClosed,         \* per connection: the peer has closed its side
    coordRun,           \* the PixmapActor's context: "started" or "panicked"
    trackerRun,         \* the TrackerActor's context: "started", "stopped" or "panicked"
    trigger_task_handle,\* TrackerActor.trigger_task: "Some" or "None"
    encRead,            \* per encoder: what the last GetEncodedDataMsg was answered with
    wsListenPc,         \* where WsServer::listen stands: "accept" or "panicked"
    wsPc,               \* per WebSocket connection: where its task stands
    wsMsg,              \* per WebSocket connection: the message being processed
    wsSent,             \* per WebSocket connection: the messages sent to the client
    putMsg,             \* the PutRawDataMsg waiting in the coordinator's mailbox
    sentBytes,          \* history, per connection: every byte the peer has written
    socketReads,        \* history, per connection: the number of read_buf calls that returned bytes
    pushed,             \* per connection: the frames of the batch that handle_new_subscription_data has written
    threadBlocked,      \* the thread waits for the write lock of the channel's value
    writeBuf,           \* per connection: the bytes of the encoded frame that write_buf has not written
    sockOut,            \* per connection: the bytes handed to the socket
    writeResult         \* per connection: what the last write_frame returned

coordVars == <<pixmap, spawned, setCount, written, applied>>
trackerVars == <<trackerMailbox, changes, trigger_task, publisherValue,
                 trackerLastSeq, lastAdded>>
connVars == <<pc, request, response, subscribed, data_subscription, held, out,
              delivered, missed, owed, reqCount>>
encVars == <<encPc, encData, cache>>
convVars == <<convColor, convWord, convBack>>
udpVars == <<udpSocket, udpPc, udpBuffer, udpOrigin, udpReceived, udpDispatched, udpSent>>
readVars == <<read_buffer, sockIn, peerClosed>>
runVars == <<coordRun, trackerRun, trigger_task_handle>>
wsVars == <<wsListenPc, wsPc, wsMsg, wsSent>>
pushVars == <<pushed, threadBlocked>>
writeVars == <<writeBuf, sockOut, writeResult>>
ioVars == <<pushVars, writeVars>>
extraVars == <<putMsg, sentBytes, socketReads, ioVars>>
laterVars == <<listenPc, readVars, runVars, encRead, wsVars, extraVars>>
auxVars == <<stream, convVars, udpVars, laterVars>>
vars == <<coordVars, trackerVars, connVars, encVars, auxVars>>

NoColor == <<>>
NoWord == <<>>
NoDatagram == <<>>
NoAddr == 0

\* Every actor and task as it is after construction, whatever the pixmap holds.
ActorsInit ==
    /\ spawned = <<>>
    /\ setCount = 0
    /\ trackerMailbox = <<>>
    /\ changes = {}
    /\ trigger_task = "tick"
    /\ publisherValue = <<>>
    /\ trackerLastSeq = 0
    /\ pc = [c \in Conns |-> "loop"]
    /\ request = [c \in Conns |-> NoRequest]
    /\ response = [c \in Conns |-> NoFrame]
    /\ subscribed = [c \in Conns |-> FALSE]
    /\ data_subscription = [c \in Conns |-> "none"]
    /\ held = [c \in Conns |-> "none"]
    /\ out = [c \in Conns |-> <<>>]
    /\ delivered = [c \in Conns |-> {}]
    /\ missed = [c \in Conns |-> FALSE]
    /\ owed = [c \in Conns |-> {}]
    /\ encPc = [e \in Encoders |-> "tick"]
    /\ encData = [e \in Encoders |-> <<>>]
    /\ cache = [e \in Encoders |-> <<>>]
    /\ reqCount = 0
    /\ written = [i \in 0..(W * H - 1) |-> NoColor]
    /\ applied = {}
    /\ lastAdded = [p \in ReqCoords |-> NoColor]
    /\ stream = [c \in Conns |-> <<>>]
    /\ udpSocket = NoDatagram
    /\ udpPc = "recv_from"
    /\ udpBuffer = <<>>
    /\ udpOrigin = NoAddr
    /\ udpReceived = NoDatagram
    /\ udpDispatched = <<>>
    /\ udpSent = <<>>

NoRead == <<-1>>
NoMessage == [kind |-> "None"]
NoPutRawData == [kind |-> "None"]

\* The servers and the actors' contexts after main has started them, with the
\* connections open and nothing sent yet.
ServersInit ==
    /\ listenPc = "accept"
    /\ read_buffer = [c \in Conns |-> <<>>]
    /\ sockIn = [c \in Conns |-> <<>>]
    /\ peerClosed = [c \in Conns |-> FALSE]
    /\ coordRun = "started"
    /\ trackerRun = "started"
    /\ trigger_task_handle = "Some"
    /\ encRead = [e \in Encoders |-> NoRead]
    /\ wsListenPc = "accept"
    /\ wsPc = [c \in Conns |-> "next"]
    /\ wsMsg = [c \in Conns |-> NoMessage]
    /\ wsSent = [c \in Conns |-> <<>>]
    /\ putMsg = NoPutRawData
    /\ sentBytes = [c \in Conns |-> <<>>]
    /\ socketReads = [c \in Conns |-> 0]
    /\ pushed = [c \in Conns |-> 0]
    /\ threadBlocked = FALSE
    /\ writeBuf = [c \in Conns |-> <<>>]
    /\ sockOut = [c \in Conns |-> <<>>]
    /\ writeResult = [c \in Conns |-> "none"]

Init ==
    /\ pixmap = NewPixmap
    /\ ActorsInit
    /\ ServersInit
    /\ convColor = Black
    /\ convWord = NoWord
    /\ convBack = NoColor

\* ------------------------------------------------------------------ watch channel
\* The receivers that exist: the ones in a connection's field and the ones a
\* connection holds in the local variable of its loop iteration.
NumReceivers ==
    Cardinality({c \in Conns : data_subscription[c] # "none"})
    + Cardinality({c \in Conns : held[c] # "none"})

\* watch::Sender::is_closed: every receiver has been dropped
IsClosed == NumReceivers = 0

\* watch::Sender::send marks the new value as not seen in every receiver
MarkUnseen(r) == [c \in Conns |-> IF r[c] = "none" THEN "none" ELSE "unseen"]

\* ------------------------------------------------------------------ coordinator
\* Handler<GetSizeMsg>, asked by handle_request before it looks at the request.
\* The connection goes on at once: SIZE and HELP are answered from what it
\* has, a PX request sends its message to the coordinator, and SUBSCRIBE and
\* UNSUBSCRIBE set the connection's preference.
PreferenceAfter(req, pref) ==
    CASE req.kind = "Subscribe" -> TRUE
      [] req.kind = "Unsubscribe" -> FALSE
      [] OTHER -> pref

\* A handle_request that answers SIZE with the height first.
HandleRequest_HeightFirst(req, pixmap_size) ==
    CASE req.kind = "Size" -> SizeFrame(pixmap_size[2], pixmap_size[1])
      [] req.kind = "Help" -> HelpFrame
      [] OTHER -> NoFrame

\* handle_request, the arms that need no more than the size: SIZE is
\* answered with Response::Size(pixmap_size.0, pixmap_size.1), HELP with
\* Response::Help, and the other requests have no response yet.
HandleRequest(req, pixmap_size) ==
    CASE req.kind = "Size" -> SizeFrame(pixmap_size[1], pixmap_size[2])
      [] req.kind = "Help" -> HelpFrame
      [] OTHER -> NoFrame

HandleGetSizeMsg(c) ==
    /\ pc[c] = "size"
    /\ LET pixmap_size == GetSize
           req == request[c]
       IN  /\ response' = [response EXCEPT ![c] = HandleRequest(req, pixmap_size)]
           /\ pc' = [pc EXCEPT ![c] = IF req.kind \in {"PxGet", "PxSet"} THEN "px" ELSE "write"]
           /\ subscribed' = [subscribed EXCEPT ![c] = PreferenceAfter(req, subscribed[c])]
    /\ UNCHANGED <<coordVars, trackerVars, encVars, auxVars>>
    /\ UNCHANGED <<request, data_subscription, held, out, delivered, missed, owed, reqCount>>

\* handle_frame that logs the error of handle_request and answers nothing.
HandleFrameResult_Silent(ok, frame) == IF ok THEN frame ELSE NoFrame

\* handle_frame: an error of handle_request becomes an error frame, a response
\* becomes its frame, and no response stays none.
HandleFrameResult(ok, frame) == IF ok THEN frame ELSE ErrorFrame("pixmap")

\* The handler with the coordinates in the wrong order.
CoordGetPixel_Swapped(data, msg) == GetPixel(data, msg.y, msg.x)

\* Handler<GetPixelMsg>::handle: self.pixmap.get_pixel(msg.x, msg.y)
CoordGetPixel(data, msg) == GetPixel(data, msg.x, msg.y)

\* The handler with the coordinates in the wrong order.
CoordSetPixel_Swapped(data, msg) == SetPixel(data, msg.y, msg.x, msg.color)

\* Handler<SetPixelMsg>::handle: self.pixmap.set_pixel(msg.x, msg.y, msg.color)
CoordSetPixel(data, msg) == SetPixel(data, msg.x, msg.y, msg.color)

\* Handler<GetPixelMsg>, and handle_request / handle_frame turning the answer
\* into the PX response or the error frame.
HandleGetPixelMsg(c) ==
    /\ pc[c] = "px"
    /\ request[c].kind = "PxGet"
    /\ LET msg == request[c]
           r == CoordGetPixel(pixmap, msg)
       IN  response' = [response EXCEPT ![c] =
                HandleFrameResult(r.ok, PxFrame(msg.x, msg.y, r.color))]
    /\ pc' = [pc EXCEPT ![c] = "write"]
    /\ UNCHANGED <<coordVars, trackerVars, encVars, auxVars>>
    /\ UNCHANGED <<request, subscribed, data_subscription, held, out,
                   delivered, missed, owed, reqCount>>

\* Handler<SetPixelMsg>: spawn the future that sends the message on to the
\* tracker, then set the pixel.
HandleSetPixelMsg(c) ==
    /\ pc[c] = "px"
    /\ request[c].kind = "PxSet"
    /\ LET msg == request[c]
           r == CoordSetPixel(pixmap, msg)
       IN  /\ spawned' = Append(spawned,
                [type |-> "SetPixel", x |-> msg.x, y |-> msg.y, color |-> msg.color,
                 seq |-> setCount + 1])
           /\ setCount' = setCount + 1
           /\ pixmap' = r.data
           /\ response' = [response EXCEPT ![c] = HandleFrameResult(r.ok, NoFrame)]
           /\ written' = IF r.ok
                         THEN [written EXCEPT ![PixmapIndex(msg.x, msg.y)] = msg.color]
                         ELSE written
           /\ applied' = IF r.ok THEN applied \cup {<<msg.x, msg.y, msg.color>>} ELSE applied
           /\ owed' = [d \in Conns |->
                IF r.ok /\ (data_subscription[d] # "none" \/ held[d] # "none")
                THEN owed[d] \cup {<<msg.x, msg.y, msg.color>>}
                ELSE owed[d]]
    /\ pc' = [pc EXCEPT ![c] = "write"]
    /\ UNCHANGED <<trackerVars, encVars, auxVars>>
    /\ UNCHANGED <<request, subscribed, data_subscription, held, out,
                   delivered, missed, reqCount>>

\* Spawned futures that reach the mailbox in any order.
ForwardSetPixel_Unordered ==
    /\ spawned # <<>>
    /\ \E i \in 1..Len(spawned) :
          /\ trackerMailbox' = Append(trackerMailbox, spawned[i])
          /\ spawned' = [k \in 1..(Len(spawned) - 1) |->
                            IF k < i THEN spawned[k] ELSE spawned[k + 1]]
    /\ UNCHANGED <<pixmap, setCount, written, applied>>
    /\ UNCHANGED <<changes, trigger_task, publisherValue, trackerLastSeq, lastAdded>>
    /\ UNCHANGED <<connVars, encVars, auxVars>>

\* The spawned futures are polled in the order they were spawned, and the first
\* poll of each puts its message into the tracker's mailbox.
ForwardSetPixel ==
    /\ spawned # <<>>
    /\ trackerMailbox' = Append(trackerMailbox, Head(spawned))
    /\ spawned' = Tail(spawned)
    /\ UNCHANGED <<pixmap, setCount, written, applied>>
    /\ UNCHANGED <<changes, trigger_task, publisherValue, trackerLastSeq, lastAdded>>
    /\ UNCHANGED <<connVars, encVars, auxVars>>

\* ------------------------------------------------------------------ tracker actor
\* The interval loop that started() spawns: a tick sends TriggerUpdatesMsg to
\* the actor itself and waits for the answer.
IntervalTick ==
    /\ trigger_task = "tick"
    /\ trigger_task' = "sent"
    /\ trackerMailbox' = Append(trackerMailbox, [type |-> "Trigger"])
    /\ UNCHANGED <<changes, publisherValue, trackerLastSeq, lastAdded>>
    /\ UNCHANGED <<coordVars, connVars, encVars, auxVars>>

\* Handler<SetPixelMsg> for TrackerActor
TrackerHandleSetPixelMsg ==
    /\ trackerMailbox # <<>>
    /\ Head(trackerMailbox).type = "SetPixel"
    /\ LET msg == Head(trackerMailbox)
       IN  /\ changes' = TrackerAdd(changes, msg.x, msg.y, msg.color)
           /\ trackerLastSeq' = msg.seq
           /\ lastAdded' = [lastAdded EXCEPT ![<<msg.x, msg.y>>] = msg.color]
    /\ trackerMailbox' = Tail(trackerMailbox)
    /\ UNCHANGED <<trigger_task, publisherValue>>
    /\ UNCHANGED <<coordVars, connVars, encVars, auxVars>>

\* A flush that reads the changes and leaves them in the set.
HandleTriggerUpdatesMsg_NoReset ==
    /\ trackerMailbox # <<>>
    /\ Head(trackerMailbox).type = "Trigger"
    /\ IF ~IsClosed
       THEN /\ \E drained \in Drain(changes) :
                 publisherValue' = [i \in 1..Len(drained) |-> ChangeMsg(drained[i])]
            /\ changes' = changes
            /\ lastAdded' = [p \in ReqCoords |-> NoColor]
            /\ data_subscription' = MarkUnseen(data_subscription)
            /\ held' = MarkUnseen(held)
            /\ missed' = [c \in Conns |->
                    missed[c] \/ data_subscription[c] = "unseen" \/ held[c] = "unseen"]
       ELSE UNCHANGED <<publisherValue, changes, lastAdded, data_subscription, held, missed>>
    /\ trackerMailbox' = Tail(trackerMailbox)
    /\ trigger_task' = "tick"
    /\ UNCHANGED trackerLastSeq
    /\ UNCHANGED <<coordVars, encVars, auxVars>>
    /\ UNCHANGED <<pc, request, response, subscribed, out, delivered, owed, reqCount>>

\* Handler<TriggerUpdatesMsg> for TrackerActor
HandleTriggerUpdatesMsg ==
    /\ trackerMailbox # <<>>
    /\ Head(trackerMailbox).type = "Trigger"
    /\ IF ~IsClosed
       THEN /\ \E drained \in Drain(changes) :
                 publisherValue' = [i \in 1..Len(drained) |-> ChangeMsg(drained[i])]
            /\ changes' = {}
            /\ lastAdded' = [p \in ReqCoords |-> NoColor]
            /\ data_subscription' = MarkUnseen(data_subscription)
            /\ held' = MarkUnseen(held)
            /\ missed' = [c \in Conns |->
                    missed[c] \/ data_subscription[c] = "unseen" \/ held[c] = "unseen"]
       ELSE UNCHANGED <<publisherValue, changes, lastAdded, data_subscription, held, missed>>
    /\ trackerMailbox' = Tail(trackerMailbox)
    /\ trigger_task' = "tick"
    /\ UNCHANGED trackerLastSeq
    /\ UNCHANGED <<coordVars, encVars, auxVars>>
    /\ UNCHANGED <<pc, request, response, subscribed, out, delivered, owed, reqCount>>

\* ------------------------------------------------------------------ TCP connection
\* An iteration that keeps what the request handling stored in the field.
FieldAfterIteration_KeepNew(field, taken) == field

\* The end of one iteration of handle_connection's loop: an iteration that
\* took a receiver out of the field puts it back.
FieldAfterIteration(field, taken) == IF taken # "none" THEN taken ELSE field

\* read_frame returns a frame; handle_frame parses it.  A frame that does not
\* parse is answered with an error frame, any other request first asks the
\* coordinator for the size.
ReadFrame(c, req) ==
    /\ pc[c] = "loop"
    /\ reqCount < MaxReqs
    /\ reqCount' = reqCount + 1
    /\ request' = [request EXCEPT ![c] = req]
    /\ held' = [held EXCEPT ![c] = data_subscription[c]]
    /\ data_subscription' = [data_subscription EXCEPT ![c] = "none"]
    /\ IF req.kind = "Malformed"
       THEN /\ response' = [response EXCEPT ![c] = ErrorFrame("parse")]
            /\ pc' = [pc EXCEPT ![c] = "write"]
       ELSE /\ response' = [response EXCEPT ![c] = NoFrame]
            /\ pc' = [pc EXCEPT ![c] = "size"]
    /\ UNCHANGED <<subscribed, out, delivered, missed, owed>>
    /\ UNCHANGED <<coordVars, trackerVars, encVars, auxVars>>

\* read_frame returns an error (the peer closed, or the read failed):
\* handle_request_frame returns false, the loop ends and the connection with
\* its receiver is dropped.
ReadError(c) ==
    /\ pc[c] = "loop"
    /\ pc' = [pc EXCEPT ![c] = "closed"]
    /\ data_subscription' = [data_subscription EXCEPT ![c] = "none"]
    /\ UNCHANGED <<request, response, subscribed, held, out, delivered, missed, owed, reqCount>>
    /\ UNCHANGED <<coordVars, trackerVars, encVars, auxVars>>

\* handle_request_frame after handle_frame: write the response, if there is
\* one, then bring the subscription in line with the preference.
WriteResponse(c) ==
    /\ pc[c] = "write"
    /\ LET written_out == IF response[c] = NoFrame THEN <<>> ELSE <<response[c]>>
       IN  CASE subscribed[c] /\ data_subscription[c] = "none" ->
                    \* the SubscribeMsg goes to the tracker
                    /\ out' = [out EXCEPT ![c] = written_out]
                    /\ trackerMailbox' = Append(trackerMailbox, [type |-> "Subscribe", conn |-> c])
                    /\ pc' = [pc EXCEPT ![c] = "sub"]
                    /\ UNCHANGED <<data_subscription, held, delivered, missed, owed>>
             [] ~subscribed[c] /\ data_subscription[c] # "none" ->
                    /\ out' = [out EXCEPT ![c] = Append(written_out, UnsubscribedFrame)]
                    /\ data_subscription' = [data_subscription EXCEPT ![c] =
                            FieldAfterIteration("none", held[c])]
                    /\ held' = [held EXCEPT ![c] = "none"]
                    /\ pc' = [pc EXCEPT ![c] = "loop"]
                    /\ UNCHANGED <<trackerMailbox, delivered, missed, owed>>
             [] OTHER ->
                    /\ out' = [out EXCEPT ![c] = written_out]
                    /\ data_subscription' = [data_subscription EXCEPT ![c] =
                            FieldAfterIteration(data_subscription[c], held[c])]
                    /\ held' = [held EXCEPT ![c] = "none"]
                    /\ pc' = [pc EXCEPT ![c] = "loop"]
                    /\ UNCHANGED <<trackerMailbox, delivered, missed, owed>>
    /\ response' = [response EXCEPT ![c] = NoFrame]
    /\ request' = [request EXCEPT ![c] = IF pc'[c] = "loop" THEN NoRequest ELSE request[c]]
    /\ UNCHANGED <<subscribed, reqCount>>
    /\ UNCHANGED <<changes, trigger_task, publisherValue, trackerLastSeq, lastAdded>>
    /\ UNCHANGED <<coordVars, encVars, auxVars>>

\* Handler<SubscribeMsg> for TrackerActor, and the connection going on with the
\* receiver it is answered with: it stores the receiver in its field, writes
\* SUBSCRIBED and ends the iteration.
HandleSubscribeMsg ==
    /\ trackerMailbox # <<>>
    /\ Head(trackerMailbox).type = "Subscribe"
    /\ LET c == Head(trackerMailbox).conn
       IN  /\ pc[c] = "sub"
           /\ data_subscription' = [data_subscription EXCEPT ![c] =
                    FieldAfterIteration("seen", held[c])]
           /\ held' = [held EXCEPT ![c] = "none"]
           /\ out' = [out EXCEPT ![c] = Append(out[c], SubscribedFrame)]
           /\ pc' = [pc EXCEPT ![c] = "loop"]
           /\ request' = [request EXCEPT ![c] = NoRequest]
           /\ delivered' = [delivered EXCEPT ![c] = IF held[c] = "none" THEN {} ELSE delivered[c]]
           /\ owed' = [owed EXCEPT ![c] = IF held[c] = "none" THEN {} ELSE owed[c]]
           /\ missed' = [missed EXCEPT ![c] = IF held[c] = "none" THEN FALSE ELSE missed[c]]
    /\ trackerMailbox' = Tail(trackerMailbox)
    /\ UNCHANGED <<changes, trigger_task, publisherValue, trackerLastSeq, lastAdded>>
    /\ UNCHANGED <<response, subscribed, reqCount>>
    /\ UNCHANGED <<coordVars, encVars, auxVars>>

\* A receiver whose changed() returns without marking the value as seen.
ReceiveBatch_NotMarked(c) ==
    /\ pc[c] = "loop"
    /\ data_subscription[c] = "unseen"
    /\ out' = [out EXCEPT ![c] =
            [i \in 1..Len(publisherValue) |->
                PxFrame(publisherValue[i].x, publisherValue[i].y, publisherValue[i].color)]]
    /\ delivered' = [delivered EXCEPT ![c] = delivered[c] \cup
            {<<publisherValue[i].x, publisherValue[i].y, publisherValue[i].color>> :
                i \in 1..Len(publisherValue)}]
    /\ UNCHANGED <<pc, request, response, subscribed, data_subscription, held, missed, owed, reqCount>>
    /\ UNCHANGED <<coordVars, trackerVars, encVars, auxVars>>

\* A subscriber that writes the frames of a batch from its last change to
\* its first.
ReceiveBatch_Reversed(c) ==
    /\ pc[c] = "loop"
    /\ data_subscription[c] = "unseen"
    /\ data_subscription' = [data_subscription EXCEPT ![c] = "seen"]
    /\ out' = [out EXCEPT ![c] =
            [i \in 1..Len(publisherValue) |->
                LET k == Len(publisherValue) + 1 - i
                IN  PxFrame(publisherValue[k].x, publisherValue[k].y, publisherValue[k].color)]]
    /\ delivered' = [delivered EXCEPT ![c] = delivered[c] \cup
            {<<publisherValue[i].x, publisherValue[i].y, publisherValue[i].color>> :
                i \in 1..Len(publisherValue)}]
    /\ UNCHANGED <<pc, request, response, subscribed, held, missed, owed, reqCount>>
    /\ UNCHANGED <<coordVars, trackerVars, encVars, auxVars>>

\* The second branch of the select: changed() has returned, and
\* handle_new_subscription_data writes one PX frame per change of the
\* channel's value.
ReceiveBatch(c) ==
    /\ pc[c] = "loop"
    /\ data_subscription[c] = "unseen"
    /\ data_subscription' = [data_subscription EXCEPT ![c] = "seen"]
    /\ out' = [out EXCEPT ![c] =
            [i \in 1..Len(publisherValue) |->
                PxFrame(publisherValue[i].x, publisherValue[i].y, publisherValue[i].color)]]
    /\ delivered' = [delivered EXCEPT ![c] = delivered[c] \cup
            {<<publisherValue[i].x, publisherValue[i].y, publisherValue[i].color>> :
                i \in 1..Len(publisherValue)}]
    /\ UNCHANGED <<pc, request, response, subscribed, held, missed, owed, reqCount>>
    /\ UNCHANGED <<coordVars, trackerVars, encVars, auxVars>>

\* ------------------------------------------------------------------ AutoEncoder
\* The future that started() spawns: it waits for one tick of the interval,
\* sends TriggerEncodingMsg to the actor, waits for the answer and ends.
EncoderIntervalTick(e) ==
    /\ encPc[e] = "tick"
    /\ encPc' = [encPc EXCEPT ![e] = "trigger"]
    /\ UNCHANGED <<encData, cache>>
    /\ UNCHANGED <<coordVars, trackerVars, connVars, auxVars>>

\* Handler<TriggerEncodingMsg>: send GetSizeMsg and GetRawDataMsg to the coordinator
HandleTriggerEncodingMsg(e) ==
    /\ encPc[e] = "trigger"
    /\ encPc' = [encPc EXCEPT ![e] = "size"]
    /\ UNCHANGED <<encData, cache>>
    /\ UNCHANGED <<coordVars, trackerVars, connVars, auxVars>>

\* Handler<GetSizeMsg>, asked by an encoder
HandleGetSizeMsgOfEncoder(e) ==
    /\ encPc[e] = "size"
    /\ encPc' = [encPc EXCEPT ![e] = "data"]
    /\ UNCHANGED <<encData, cache>>
    /\ UNCHANGED <<coordVars, trackerVars, connVars, auxVars>>

\* A coordinator that answers GetRawDataMsg with the first pixel as it is and
\* the others as they were when the pixmap was made.
HandleGetRawDataMsg_Mixed(e) ==
    /\ encPc[e] = "data"
    /\ encData' = [encData EXCEPT ![e] =
            [i \in 1..(W * H) |-> IF i = 1 THEN pixmap[i] ELSE NewPixmap[i]]]
    /\ encPc' = [encPc EXCEPT ![e] = "encode"]
    /\ UNCHANGED cache
    /\ UNCHANGED <<coordVars, trackerVars, connVars, auxVars>>

\* Handler<GetRawDataMsg>
HandleGetRawDataMsg(e) ==
    /\ encPc[e] = "data"
    /\ encData' = [encData EXCEPT ![e] = pixmap]
    /\ encPc' = [encPc EXCEPT ![e] = "encode"]
    /\ UNCHANGED cache
    /\ UNCHANGED <<coordVars, trackerVars, connVars, auxVars>>

\* The map of the handler's future: encode what the coordinator answered and
\* store it in the cache.  With it the answer to TriggerEncodingMsg is there
\* and the spawned future ends.
StoreEncoding(e) ==
    /\ encPc[e] = "encode"
    /\ cache' = [cache EXCEPT ![e] = Encode(e, GetSize[1], GetSize[2], encData[e])]
    /\ encData' = [encData EXCEPT ![e] = <<>>]
    /\ encPc' = [encPc EXCEPT ![e] = "done"]
    /\ UNCHANGED <<coordVars, trackerVars, connVars, auxVars>>

\* Handler<GetEncodedDataMsg>: self.cache.clone(), noted as the value the
\* encoder's last reader got.
HandleGetEncodedDataMsg(e) ==
    /\ encRead' = [encRead EXCEPT ![e] = cache[e]]
    /\ UNCHANGED <<coordVars, trackerVars, connVars, encVars>>
    /\ UNCHANGED <<stream, convVars, udpVars, listenPc, readVars, runVars, wsVars, extraVars>>

\* ------------------------------------------------------------------ specification
Next ==
    \/ \E c \in Conns : \E req \in Requests : ReadFrame(c, req)
    \/ \E c \in Conns : ReadError(c)
    \/ \E c \in Conns : HandleGetSizeMsg(c)
    \/ \E c \in Conns : HandleGetPixelMsg(c)
    \/ \E c \in Conns : HandleSetPixelMsg(c)
    \/ \E c \in Conns : WriteResponse(c)
    \/ \E c \in Conns : ReceiveBatch(c)
    \/ ForwardSetPixel
    \/ IntervalTick
    \/ TrackerHandleSetPixelMsg
    \/ HandleTriggerUpdatesMsg
    \/ HandleSubscribeMsg

Spec == Init /\ [][Next]_vars

\* The encoders beside the coordinator and the clients that write pixels.  The
\* encoders only read the pixmap, and what the tracker and the subscriptions do
\* does not reach them, so this specification leaves the tracker's side out
\* and the other leaves the encoders out.
WriteRequests == {req \in Requests : req.kind = "PxSet"}

EncoderNext ==
    \/ \E c \in Conns : \E req \in WriteRequests : ReadFrame(c, req)
    \/ \E c \in Conns : HandleGetSizeMsg(c)
    \/ \E c \in Conns : HandleSetPixelMsg(c)
    \/ \E c \in Conns : WriteResponse(c)
    \/ \E e \in Encoders : EncoderIntervalTick(e)
    \/ \E e \in Encoders : HandleTriggerEncodingMsg(e)
    \/ \E e \in Encoders : HandleGetSizeMsgOfEncoder(e)
    \/ \E e \in Encoders : HandleGetRawDataMsg(e)
    \/ \E e \in Encoders : StoreEncoding(e)

EncoderSpec == Init /\ [][EncoderNext]_vars

\* The encoders, readers of their caches, and clients that write the pixels
\* of the pixmap.
CacheRequests == {req \in WriteRequests : req.x < W /\ req.y < H}

CacheNext ==
    \/ \E c \in Conns : \E req \in CacheRequests : ReadFrame(c, req)
    \/ \E c \in Conns : HandleGetSizeMsg(c)
    \/ \E c \in Conns : HandleSetPixelMsg(c)
    \/ \E c \in Conns : WriteResponse(c)
    \/ \E e \in Encoders : EncoderIntervalTick(e)
    \/ \E e \in Encoders : HandleTriggerEncodingMsg(e)
    \/ \E e \in Encoders : HandleGetSizeMsgOfEncoder(e)
    \/ \E e \in Encoders : HandleGetRawDataMsg(e)
    \/ \E e \in Encoders : StoreEncoding(e)
    \/ \E e \in Encoders : HandleGetEncodedDataMsg(e)

CacheSpec == Init /\ [][CacheNext]_vars

\* ------------------------------------------------------------------ every user of the pixmap
\* Pixmap::put_raw_data replaces the whole content by data of the pixmap's
\* size and fails for data of any other size.
PutRawData(data, new) ==
    IF Len(new) = W * H
    THEN [ok |-> TRUE, data |-> new]
    ELSE [ok |-> FALSE, data |-> data]

\* A handler that stores the data it is given whatever their size, filled
\* up with black.
CoordPutRawData_Padded(data, msg) ==
    [ok |-> TRUE,
     data |-> [i \in 1..(W * H) |-> IF i <= Len(msg.data) THEN msg.data[i] ELSE Black]]

\* Handler<PutRawDataMsg>::handle: self.pixmap.put_raw_data(&msg.data)
CoordPutRawData(data, msg) == PutRawData(data, msg.data)

\* The data a PutRawDataMsg carries: a whole pixmap of one color, and data
\* that is one color short.
RawDataSent ==
    {[i \in 1..(W * H) |-> <<4, 5, 6>>], [i \in 1..(W * H - 1) |-> <<4, 5, 6>>]}

\* Some holder of the coordinator's address sends a PutRawDataMsg.
SendPutRawDataMsg(data) ==
    /\ putMsg = NoPutRawData
    /\ putMsg' = [kind |-> "PutRawData", data |-> data]
    /\ UNCHANGED <<sentBytes, socketReads, ioVars>>
    /\ UNCHANGED <<coordVars, trackerVars, connVars, encVars>>
    /\ UNCHANGED <<stream, convVars, udpVars, listenPc, readVars, runVars, encRead, wsVars>>

\* Handler<PutRawDataMsg>
HandlePutRawDataMsg ==
    /\ putMsg # NoPutRawData
    /\ LET r == CoordPutRawData(pixmap, putMsg)
       IN  /\ pixmap' = r.data
           /\ written' = IF r.ok
                         THEN [i \in 0..(W * H - 1) |-> r.data[i + 1]]
                         ELSE written
    /\ putMsg' = NoPutRawData
    /\ UNCHANGED <<sentBytes, socketReads, ioVars>>
    /\ UNCHANGED <<spawned, setCount, applied>>
    /\ UNCHANGED <<trackerVars, connVars, encVars>>
    /\ UNCHANGED <<stream, convVars, udpVars, listenPc, readVars, runVars, encRead, wsVars>>

\* What the clients of SingleWriterSpec send: the first connection reads
\* and subscribes, the others set a pixel inside the pixmap and one outside
\* of it.
SingleWriterRequests(c) ==
    IF c = 1
    THEN {[kind |-> "Subscribe"], [kind |-> "Unsubscribe"],
          [kind |-> "PxGet", x |-> 0, y |-> 0]}
    ELSE {[kind |-> "PxSet", x |-> 0, y |-> 0, color |-> <<1, 2, 3>>],
          [kind |-> "PxSet", x |-> W, y |-> 0, color |-> <<1, 2, 3>>]}

\* The coordinator with everything that sends to it or reads what it
\* answers: connections, the tracker, an encoder and the sender of
\* PutRawDataMsg.
SingleWriterNext ==
    \/ \E c \in Conns : \E req \in SingleWriterRequests(c) : ReadFrame(c, req)
    \/ \E c \in Conns : HandleGetSizeMsg(c)
    \/ \E c \in Conns : HandleGetPixelMsg(c)
    \/ \E c \in Conns : HandleSetPixelMsg(c)
    \/ \E c \in Conns : WriteResponse(c)
    \/ \E c \in Conns : ReceiveBatch(c)
    \/ ForwardSetPixel
    \/ IntervalTick
    \/ TrackerHandleSetPixelMsg
    \/ HandleTriggerUpdatesMsg
    \/ HandleSubscribeMsg
    \/ EncoderIntervalTick("rgb64")
    \/ HandleTriggerEncodingMsg("rgb64")
    \/ HandleGetSizeMsgOfEncoder("rgb64")
    \/ HandleGetRawDataMsg("rgb64")
    \/ StoreEncoding("rgb64")
    \/ \E data \in RawDataSent : SendPutRawDataMsg(data)
    \/ HandlePutRawDataMsg

SingleWriterSpec == Init /\ [][SingleWriterNext]_vars

\* ------------------------------------------------------------------ the encoders alone
\* The encoders over a pixmap of any content: the colors a pixel may hold are
\* the extremes of the channels and colors whose three channels differ.
TestColors ==
    {<<0, 0, 0>>, <<255, 255, 255>>, <<1, 2, 3>>, <<255, 0, 128>>, <<170, 187, 204>>}

EncodeInit ==
    /\ pixmap \in [1..(W * H) -> TestColors]
    /\ ActorsInit
    /\ ServersInit
    /\ convColor = Black
    /\ convWord = NoWord
    /\ convBack = NoColor

EncodeNext ==
    \/ \E e \in Encoders : EncoderIntervalTick(e)
    \/ \E e \in Encoders : HandleTriggerEncodingMsg(e)
    \/ \E e \in Encoders : HandleGetSizeMsgOfEncoder(e)
    \/ \E e \in Encoders : HandleGetRawDataMsg(e)
    \/ \E e \in Encoders : StoreEncoding(e)

EncodeSpec == EncodeInit /\ [][EncodeNext]_vars

\* ------------------------------------------------------------------ color and u32
\* A u32 here is the pair of its high and its low 16 bits: the whole number
\* can exceed what the model checker's integers hold.
\* u32::to_be_bytes and u32::from_be_bytes
ToBeBytes(v) == <<v[1] \div 256, v[1] % 256, v[2] \div 256, v[2] % 256>>
FromBeBytes(b) == <<b[1] * 256 + b[2], b[3] * 256 + b[4]>>

\* From<u32> for Color
ColorFromU32(src) == LET b == ToBeBytes(src) IN <<b[2], b[3], b[4]>>

\* From<Color> for u32
ColorIntoU32(value) == FromBeBytes(<<value[1], value[2], value[3], 0>>)

\* The colors converted: every channel at its extremes, at one and at the
\* middle of its range.
ChannelValues == {0, 1, 128, 255}
ConvColors == {<<r, g, b>> : r \in ChannelValues, g \in ChannelValues, b \in ChannelValues}

ColorInit ==
    /\ pixmap = NewPixmap
    /\ ActorsInit
    /\ ServersInit
    /\ convColor \in ConvColors
    /\ convWord = NoWord
    /\ convBack = NoColor

\* u32::from(c)
ConvertIntoU32 ==
    /\ convWord = NoWord
    /\ convWord' = ColorIntoU32(convColor)
    /\ UNCHANGED <<convColor, convBack>>
    /\ UNCHANGED <<coordVars, trackerVars, connVars, encVars, stream, udpVars, laterVars>>

\* Color::from(v) for the v that u32::from(c) gave
ConvertFromU32 ==
    /\ convWord # NoWord
    /\ convBack = NoColor
    /\ convBack' = ColorFromU32(convWord)
    /\ UNCHANGED <<convColor, convWord>>
    /\ UNCHANGED <<coordVars, trackerVars, connVars, encVars, stream, udpVars, laterVars>>

ColorNext == ConvertIntoU32 \/ ConvertFromU32

ColorSpec == ColorInit /\ [][ColorNext]_vars

\* ------------------------------------------------------------------ one client's writes
\* The SetPixel frames a client may send: each client paints with colors of its
\* own, its number in the red channel.
WriterColors(c) == {<<c, 1, 0>>, <<c, 2, 0>>}
WriterRequests(c) ==
    {[kind |-> "PxSet", x |-> p[1], y |-> p[2], color |-> col] :
        p \in ReqCoords, col \in WriterColors(c)}

\* A connection that reads its next frame while the frame before it is still
\* with the coordinator.
ReadSetPixelFrame_Pipelined(c, req) ==
    /\ pc[c] \in {"loop", "px"}
    /\ reqCount < MaxReqs
    /\ reqCount' = reqCount + 1
    /\ request' = [request EXCEPT ![c] = req]
    /\ held' = [held EXCEPT ![c] = data_subscription[c]]
    /\ data_subscription' = [data_subscription EXCEPT ![c] = "none"]
    /\ response' = [response EXCEPT ![c] = NoFrame]
    /\ pc' = [pc EXCEPT ![c] = "size"]
    /\ stream' = [stream EXCEPT ![c] = Append(stream[c], req)]
    /\ UNCHANGED <<subscribed, out, delivered, missed, owed>>
    /\ UNCHANGED <<coordVars, trackerVars, encVars, convVars, udpVars, laterVars>>

\* read_frame returns a SetPixel frame, the next one of the connection's byte
\* stream: ReadFrame for such a frame, with the frame noted in the history.
ReadSetPixelFrame(c, req) ==
    /\ pc[c] = "loop"
    /\ reqCount < MaxReqs
    /\ reqCount' = reqCount + 1
    /\ request' = [request EXCEPT ![c] = req]
    /\ held' = [held EXCEPT ![c] = data_subscription[c]]
    /\ data_subscription' = [data_subscription EXCEPT ![c] = "none"]
    /\ response' = [response EXCEPT ![c] = NoFrame]
    /\ pc' = [pc EXCEPT ![c] = "size"]
    /\ stream' = [stream EXCEPT ![c] = Append(stream[c], req)]
    /\ UNCHANGED <<subscribed, out, delivered, missed, owed>>
    /\ UNCHANGED <<coordVars, trackerVars, encVars, convVars, udpVars, laterVars>>

\* Clients that only write, and the coordinator.  The futures the coordinator
\* spawns are left where they are, so that spawned lists the SetPixelMsg in
\* the order the coordinator handled them.
WriterNext ==
    \/ \E c \in Conns : \E req \in WriterRequests(c) : ReadSetPixelFrame(c, req)
    \/ \E c \in Conns : HandleGetSizeMsg(c)
    \/ \E c \in Conns : HandleSetPixelMsg(c)
    \/ \E c \in Conns : WriteResponse(c)

WriterSpec == Init /\ [][WriterNext]_vars

\* ------------------------------------------------------------------ UDP server
\* A datagram is one or more newline-terminated frames and the address it came
\* from.
MaxFrames == 2
Peers == {1, 2}
UdpRequests ==
    {[kind |-> "Size"],
     [kind |-> "PxGet", x |-> 0, y |-> 0],
     [kind |-> "PxSet", x |-> 0, y |-> 0, color |-> <<1, 2, 3>>],
     [kind |-> "PxSet", x |-> W, y |-> 0, color |-> <<1, 2, 3>>]}
Datagrams ==
    {[frames |-> f, origin |-> a] :
        f \in UNION {[1..n -> UdpRequests] : n \in 1..MaxFrames}, a \in Peers}

\* The bytes of a frame on the wire, its newline included: "SIZE", "PX 0 0",
\* "PX 0 0 010203".
FrameBytes(frame) ==
    CASE frame.kind = "Size" -> 5
      [] frame.kind = "PxGet" -> 7
      [] frame.kind = "PxSet" -> 14
      [] frame.kind = "Tail" -> 4

\* Bytes with no newline after them, "PX 0": what is left of a frame that was
\* cut off.
IncompleteTail == [kind |-> "Tail"]

\* Datagrams that end in such a tail, and the datagram with no bytes at all.
TailDatagrams ==
    {[frames |-> Append(f, IncompleteTail), origin |-> a] :
        f \in UNION {[1..n -> UdpRequests] : n \in 0..MaxFrames}, a \in Peers}
EmptyDatagrams == {[frames |-> <<>>, origin |-> a] : a \in Peers}

\* The length of the slice that listen hands to recv_from: buffer[..] of a
\* BytesMut that was made with a capacity and holds nothing yet.
RecvBufferLen == 0

\* The frames that lie whole within the first n bytes.
RECURSIVE TakeBytes(_, _)
TakeBytes(frames, n) ==
    IF frames = <<>> \/ FrameBytes(Head(frames)) > n
    THEN <<>>
    ELSE <<Head(frames)>> \o TakeBytes(Tail(frames), n - FrameBytes(Head(frames)))

\* A datagram reaches the socket.
DatagramArrives(d) ==
    /\ udpSocket = NoDatagram
    /\ udpSocket' = d
    /\ UNCHANGED <<udpPc, udpBuffer, udpOrigin, udpReceived, udpDispatched, udpSent>>
    /\ UNCHANGED <<coordVars, trackerVars, connVars, encVars, stream, convVars, laterVars>>

\* listen: recv_from copies as much of the datagram as the slice holds, drops
\* the rest and returns the sender's address; the number of bytes read is not
\* used.
RecvFrom ==
    /\ udpPc = "recv_from"
    /\ udpSocket # NoDatagram
    /\ udpBuffer' = TakeBytes(udpSocket.frames, RecvBufferLen)
    /\ udpOrigin' = udpSocket.origin
    /\ udpReceived' = udpSocket
    /\ udpSocket' = NoDatagram
    /\ udpDispatched' = <<>>
    /\ udpSent' = <<>>
    /\ udpPc' = "process_received"
    /\ UNCHANGED <<coordVars, trackerVars, connVars, encVars, stream, convVars, laterVars>>

\* handle_frame for one frame of the buffer, with the coordinator's handlers it
\* awaits, and the send_to of the response when there is one.
UdpHandleFrame(st, frame, origin) ==
    LET get == CoordGetPixel(st.data, frame)
        set == CoordSetPixel(st.data, frame)
        resp == CASE frame.kind = "Size" -> SizeFrame(GetSize[1], GetSize[2])
                  [] frame.kind = "PxGet" ->
                        HandleFrameResult(get.ok, PxFrame(frame.x, frame.y, get.color))
                  [] frame.kind = "PxSet" -> HandleFrameResult(set.ok, NoFrame)
        isSet == frame.kind = "PxSet"
    IN  [data |-> IF isSet THEN set.data ELSE st.data,
         spawned |-> IF isSet
                     THEN Append(st.spawned,
                            [type |-> "SetPixel", x |-> frame.x, y |-> frame.y,
                             color |-> frame.color, seq |-> st.setCount + 1])
                     ELSE st.spawned,
         setCount |-> IF isSet THEN st.setCount + 1 ELSE st.setCount,
         written |-> IF isSet /\ set.ok
                     THEN [st.written EXCEPT ![PixmapIndex(frame.x, frame.y)] = frame.color]
                     ELSE st.written,
         applied |-> IF isSet /\ set.ok
                     THEN st.applied \cup {<<frame.x, frame.y, frame.color>>}
                     ELSE st.applied,
         dispatched |-> Append(st.dispatched, frame),
         sent |-> IF resp = NoFrame
                  THEN st.sent
                  ELSE Append(st.sent, [frame |-> resp, addr |-> origin])]

\* process_received: while the buffer has bytes left, take the next frame,
\* handle it and send its response; return when what is left is no frame.
RECURSIVE ProcessReceivedLoop(_, _, _)
ProcessReceivedLoop(buffer, origin, st) ==
    IF buffer = <<>>
    THEN st
    ELSE IF Head(buffer) = IncompleteTail
    THEN st
    ELSE ProcessReceivedLoop(Tail(buffer), origin, UdpHandleFrame(st, Head(buffer), origin))

ProcessReceived ==
    /\ udpPc = "process_received"
    /\ LET st == ProcessReceivedLoop(udpBuffer, udpOrigin,
                    [data |-> pixmap, spawned |-> spawned, setCount |-> setCount,
                     written |-> written, applied |-> applied,
                     dispatched |-> <<>>, sent |-> <<>>])
       IN  /\ pixmap' = st.data
           /\ spawned' = st.spawned
           /\ setCount' = st.setCount
           /\ written' = st.written
           /\ applied' = st.applied
           /\ udpDispatched' = st.dispatched
           /\ udpSent' = st.sent
    /\ udpBuffer' = <<>>
    /\ udpPc' = "recv_from"
    /\ UNCHANGED <<udpSocket, udpOrigin, udpReceived>>
    /\ UNCHANGED <<trackerVars, connVars, encVars, stream, convVars, laterVars>>

UdpNext ==
    \/ \E d \in Datagrams : DatagramArrives(d)
    \/ RecvFrom
    \/ ProcessReceived

UdpSpec == Init /\ [][UdpNext]_vars

\* The UDP server with every datagram a client can send: whole frames, whole
\* frames and a tail, a tail alone, nothing.
UdpTailNext ==
    \/ \E d \in Datagrams \cup TailDatagrams \cup EmptyDatagrams : DatagramArrives(d)
    \/ RecvFrom
    \/ ProcessReceived

UdpTailSpec == Init /\ [][UdpTailNext]_vars

\* ------------------------------------------------------------------ TCP listener
\* listen's loop: accept returns a socket, and the handler of ClientConnectedMsg
\* spawns handle_connection for a new TcpConnection.  The new connection takes
\* the place of one that has closed.
Accept(c) ==
    /\ listenPc = "accept"
    /\ pc[c] = "closed"
    /\ pc' = [pc EXCEPT ![c] = "loop"]
    /\ request' = [request EXCEPT ![c] = NoRequest]
    /\ response' = [response EXCEPT ![c] = NoFrame]
    /\ subscribed' = [subscribed EXCEPT ![c] = FALSE]
    /\ data_subscription' = [data_subscription EXCEPT ![c] = "none"]
    /\ held' = [held EXCEPT ![c] = "none"]
    /\ out' = [out EXCEPT ![c] = <<>>]
    /\ delivered' = [delivered EXCEPT ![c] = {}]
    /\ missed' = [missed EXCEPT ![c] = FALSE]
    /\ owed' = [owed EXCEPT ![c] = {}]
    /\ UNCHANGED <<reqCount, listenPc>>
    /\ UNCHANGED <<coordVars, trackerVars, encVars>>
    /\ UNCHANGED <<stream, convVars, udpVars, readVars, runVars, encRead, wsVars, extraVars>>

\* accept returns an error and listen unwraps it: the panic unwinds the
\* TcpServer's context, in which the listener and every connection run.
AcceptFails ==
    /\ listenPc = "accept"
    /\ listenPc' = "panicked"
    /\ pc' = [d \in Conns |-> IF pc[d] = "closed" THEN "closed" ELSE "aborted"]
    /\ data_subscription' = [d \in Conns |-> "none"]
    /\ held' = [d \in Conns |-> "none"]
    /\ UNCHANGED <<request, response, subscribed, out, delivered, missed, owed, reqCount>>
    /\ UNCHANGED <<coordVars, trackerVars, encVars>>
    /\ UNCHANGED <<stream, convVars, udpVars, readVars, runVars, encRead, wsVars, extraVars>>

\* The listener with clients that ask for the size, close, and connect again.
AcceptNext ==
    \/ \E c \in Conns : ReadFrame(c, [kind |-> "Size"])
    \/ \E c \in Conns : ReadError(c)
    \/ \E c \in Conns : HandleGetSizeMsg(c)
    \/ \E c \in Conns : WriteResponse(c)
    \/ \E c \in Conns : Accept(c)
    \/ AcceptFails

AcceptSpec == Init /\ [][AcceptNext]_vars

\* The TcpServer actor stops: its context is dropped with every future that
\* was spawned into it, which are listen and each handle_connection.
ServerStops ==
    /\ listenPc = "accept"
    /\ listenPc' = "stopped"
    /\ pc' = [d \in Conns |-> IF pc[d] = "closed" THEN "closed" ELSE "aborted"]
    /\ data_subscription' = [d \in Conns |-> "none"]
    /\ held' = [d \in Conns |-> "none"]
    /\ UNCHANGED <<request, response, subscribed, out, delivered, missed, owed, reqCount>>
    /\ UNCHANGED <<coordVars, trackerVars, encVars>>
    /\ UNCHANGED <<stream, convVars, udpVars, readVars, runVars, encRead, wsVars, extraVars>>

\* A supervisor restarts the TcpServer actor: the restart of the context
\* drops every future spawned into it, and started() spawns listen anew.
ServerRestarts ==
    /\ listenPc = "accept"
    /\ listenPc' = "accept"
    /\ pc' = [d \in Conns |-> IF pc[d] = "closed" THEN "closed" ELSE "aborted"]
    /\ data_subscription' = [d \in Conns |-> "none"]
    /\ held' = [d \in Conns |-> "none"]
    /\ UNCHANGED <<request, response, subscribed, out, delivered, missed, owed, reqCount>>
    /\ UNCHANGED <<coordVars, trackerVars, encVars>>
    /\ UNCHANGED <<stream, convVars, udpVars, readVars, runVars, encRead, wsVars, extraVars>>

\* The listener and its clients, with a server that is stopped or restarted.
ShutdownNext ==
    \/ \E c \in Conns : ReadFrame(c, [kind |-> "Size"])
    \/ \E c \in Conns : ReadError(c)
    \/ \E c \in Conns : HandleGetSizeMsg(c)
    \/ \E c \in Conns : WriteResponse(c)
    \/ \E c \in Conns : Accept(c)
    \/ ServerStops
    \/ ServerRestarts

ShutdownSpec == Init /\ [][ShutdownNext]_vars

\* ------------------------------------------------------------------ read_frame
\* What the peers of ReadSpec send: a request that is answered by the
\* coordinator and one that is answered with a parse error.
ReadRequests == {[kind |-> "Size"], [kind |-> "Malformed"]}

\* Frame::from_input on the read buffer: Ok when the buffer starts with a
\* complete frame.
HasFrame(buffer) == buffer # <<>> /\ Head(buffer) # IncompleteTail

\* The peer writes a frame; it waits in the socket until read_buf takes it.
PeerSends(c, req) ==
    /\ ~peerClosed[c]
    /\ reqCount < MaxReqs
    /\ reqCount' = reqCount + 1
    /\ sockIn' = [sockIn EXCEPT ![c] = Append(sockIn[c], req)]
    /\ UNCHANGED <<read_buffer, peerClosed>>
    /\ UNCHANGED <<pc, request, response, subscribed, data_subscription, held, out,
                   delivered, missed, owed>>
    /\ UNCHANGED <<coordVars, trackerVars, encVars>>
    /\ UNCHANGED <<stream, convVars, udpVars, listenPc, runVars, encRead, wsVars, extraVars>>

\* The peer closes its side, after a last complete frame or in the middle of
\* a frame.
PeerCloses(c, midFrame) ==
    /\ ~peerClosed[c]
    /\ peerClosed' = [peerClosed EXCEPT ![c] = TRUE]
    /\ sockIn' = [sockIn EXCEPT ![c] =
            IF midFrame THEN Append(sockIn[c], IncompleteTail) ELSE sockIn[c]]
    /\ UNCHANGED <<read_buffer, reqCount>>
    /\ UNCHANGED <<pc, request, response, subscribed, data_subscription, held, out,
                   delivered, missed, owed>>
    /\ UNCHANGED <<coordVars, trackerVars, encVars>>
    /\ UNCHANGED <<stream, convVars, udpVars, listenPc, runVars, encRead, wsVars, extraVars>>

\* read_frame, Ok arm: the frame at the start of the buffer is taken out of
\* the buffer and returned; handle_request_frame hands it to handle_frame as
\* in ReadFrame.
TakeBufferedFrame(c) ==
    /\ pc[c] = "loop"
    /\ HasFrame(read_buffer[c])
    /\ LET req == Head(read_buffer[c])
       IN  /\ request' = [request EXCEPT ![c] = req]
           /\ stream' = [stream EXCEPT ![c] = Append(stream[c], req)]
           /\ IF req.kind = "Malformed"
              THEN /\ response' = [response EXCEPT ![c] = ErrorFrame("parse")]
                   /\ pc' = [pc EXCEPT ![c] = "write"]
              ELSE /\ response' = [response EXCEPT ![c] = NoFrame]
                   /\ pc' = [pc EXCEPT ![c] = "size"]
    /\ read_buffer' = [read_buffer EXCEPT ![c] = Tail(read_buffer[c])]
    /\ held' = [held EXCEPT ![c] = data_subscription[c]]
    /\ data_subscription' = [data_subscription EXCEPT ![c] = "none"]
    /\ UNCHANGED <<sockIn, peerClosed, reqCount>>
    /\ UNCHANGED <<subscribed, out, delivered, missed, owed>>
    /\ UNCHANGED <<coordVars, trackerVars, encVars>>
    /\ UNCHANGED <<convVars, udpVars, listenPc, runVars, encRead, wsVars, extraVars>>

\* A read_frame that reads from the socket before it looks at its buffer.
ReadBuf_First(c) ==
    /\ pc[c] = "loop"
    /\ IF sockIn[c] # <<>>
       THEN /\ \E n \in 1..Len(sockIn[c]) :
                   /\ read_buffer' = [read_buffer EXCEPT ![c] =
                           read_buffer[c] \o SubSeq(sockIn[c], 1, n)]
                   /\ sockIn' = [sockIn EXCEPT ![c] =
                           SubSeq(sockIn[c], n + 1, Len(sockIn[c]))]
            /\ UNCHANGED <<pc, data_subscription>>
       ELSE /\ peerClosed[c]
            /\ pc' = [pc EXCEPT ![c] = "closed"]
            /\ data_subscription' = [data_subscription EXCEPT ![c] = "none"]
            /\ UNCHANGED <<read_buffer, sockIn>>
    /\ UNCHANGED <<peerClosed, reqCount>>
    /\ UNCHANGED <<request, response, subscribed, held, out, delivered, missed, owed>>
    /\ UNCHANGED <<coordVars, trackerVars, encVars>>
    /\ UNCHANGED <<stream, convVars, udpVars, listenPc, runVars, encRead, wsVars, extraVars>>

\* read_frame, Err arm: the buffer does not start with a complete frame, so
\* read_buf reads what the socket has (n > 0, any part of it) and the loop
\* tries again; when the peer has closed and nothing is left, n = 0,
\* read_frame returns UnexpectedEof, handle_request_frame returns false and
\* the connection ends.
ReadBuf(c) ==
    /\ pc[c] = "loop"
    /\ ~HasFrame(read_buffer[c])
    /\ IF sockIn[c] # <<>>
       THEN /\ \E n \in 1..Len(sockIn[c]) :
                   /\ read_buffer' = [read_buffer EXCEPT ![c] =
                           read_buffer[c] \o SubSeq(sockIn[c], 1, n)]
                   /\ sockIn' = [sockIn EXCEPT ![c] =
                           SubSeq(sockIn[c], n + 1, Len(sockIn[c]))]
            /\ UNCHANGED <<pc, data_subscription>>
       ELSE /\ peerClosed[c]
            /\ pc' = [pc EXCEPT ![c] = "closed"]
            /\ data_subscription' = [data_subscription EXCEPT ![c] = "none"]
            /\ UNCHANGED <<read_buffer, sockIn>>
    /\ UNCHANGED <<peerClosed, reqCount>>
    /\ UNCHANGED <<request, response, subscribed, held, out, delivered, missed, owed>>
    /\ UNCHANGED <<coordVars, trackerVars, encVars>>
    /\ UNCHANGED <<stream, convVars, udpVars, listenPc, runVars, encRead, wsVars, extraVars>>

\* Connections fed by their socket, and the coordinator.
ReadNext ==
    \/ \E c \in Conns : \E req \in ReadRequests : PeerSends(c, req)
    \/ \E c \in Conns : \E midFrame \in BOOLEAN : PeerCloses(c, midFrame)
    \/ \E c \in Conns : TakeBufferedFrame(c)
    \/ \E c \in Conns : ReadBuf(c)
    \/ \E c \in Conns : HandleGetSizeMsg(c)
    \/ \E c \in Conns : WriteResponse(c)

ReadSpec == Init /\ [][ReadNext]_vars

\* ------------------------------------------------------------------ read_frame, byte by byte
\* The bytes of the stream: the frame terminator and one other byte.
Newline == "\n"
Bytes == {"a", Newline}

\* The most bytes a peer writes.
MaxBytes == 4

\* The place of the first terminator in a buffer, 0 when there is none.
RECURSIVE FirstNewline(_, _)
FirstNewline(buffer, i) ==
    IF i > Len(buffer) THEN 0
    ELSE IF buffer[i] = Newline THEN i
    ELSE FirstNewline(buffer, i + 1)

\* Frame::from_input: the first complete frame of the buffer, without its
\* terminator, and the number of bytes it takes up with it; an error when
\* the buffer holds no terminator.
FromInput(buffer) ==
    LET n == FirstNewline(buffer, 1)
    IN  IF n = 0
        THEN [ok |-> FALSE, frame |-> <<>>, length |-> 0]
        ELSE [ok |-> TRUE, frame |-> SubSeq(buffer, 1, n - 1), length |-> n]

\* A read_frame that leaves the frame's terminator in the buffer.
Advance_KeepTerminator(buffer, length) == SubSeq(buffer, length, Len(buffer))

\* self.read_buffer.advance(length)
Advance(buffer, length) == SubSeq(buffer, length + 1, Len(buffer))

\* The peer writes a byte.
PeerWritesByte(c, b) ==
    /\ Len(sentBytes[c]) < MaxBytes
    /\ sentBytes' = [sentBytes EXCEPT ![c] = Append(sentBytes[c], b)]
    /\ sockIn' = [sockIn EXCEPT ![c] = Append(sockIn[c], b)]
    /\ UNCHANGED <<read_buffer, peerClosed, putMsg, socketReads, ioVars>>
    /\ UNCHANGED <<coordVars, trackerVars, connVars, encVars>>
    /\ UNCHANGED <<stream, convVars, udpVars, listenPc, runVars, encRead, wsVars>>

\* read_frame, Ok arm: from_input finds a frame in the buffer, the buffer
\* is advanced past it and the frame is returned.
ReturnFrame(c) ==
    /\ pc[c] = "loop"
    /\ LET r == FromInput(read_buffer[c])
       IN  /\ r.ok
           /\ read_buffer' = [read_buffer EXCEPT ![c] = Advance(read_buffer[c], r.length)]
           /\ stream' = [stream EXCEPT ![c] = Append(stream[c], r.frame)]
    /\ UNCHANGED <<sockIn, peerClosed, extraVars>>
    /\ UNCHANGED <<coordVars, trackerVars, connVars, encVars>>
    /\ UNCHANGED <<convVars, udpVars, listenPc, runVars, encRead, wsVars>>

\* read_frame, Err arm: from_input finds no frame, and read_buf appends
\* what it reads from the socket, any part of what is there, to the buffer.
ReadBufBytes(c) ==
    /\ pc[c] = "loop"
    /\ ~FromInput(read_buffer[c]).ok
    /\ sockIn[c] # <<>>
    /\ \E n \in 1..Len(sockIn[c]) :
          /\ read_buffer' = [read_buffer EXCEPT ![c] =
                  read_buffer[c] \o SubSeq(sockIn[c], 1, n)]
          /\ sockIn' = [sockIn EXCEPT ![c] = SubSeq(sockIn[c], n + 1, Len(sockIn[c]))]
    /\ socketReads' = [socketReads EXCEPT ![c] = socketReads[c] + 1]
    /\ UNCHANGED <<peerClosed, putMsg, sentBytes, ioVars>>
    /\ UNCHANGED <<coordVars, trackerVars, connVars, encVars>>
    /\ UNCHANGED <<stream, convVars, udpVars, listenPc, runVars, encRead, wsVars>>

\* Connections that call read_frame again and again on what their peers
\* write.
ByteNext ==
    \/ \E c \in Conns : \E b \in Bytes : PeerWritesByte(c, b)
    \/ \E c \in Conns : ReturnFrame(c)
    \/ \E c \in Conns : ReadBufBytes(c)

ByteSpec == Init /\ [][ByteNext]_vars

\* ------------------------------------------------------------------ a batch written frame by frame
\* What the clients of PushSpec send: the first subscribes, the others write.
PushRequests(c) ==
    IF c = 1
    THEN {[kind |-> "Subscribe"]}
    ELSE {[kind |-> "PxSet", x |-> p[1], y |-> 0, color |-> <<1, 2, 3>>] : p \in {<<0>>, <<W - 1>>}}

\* The frames i..j of the batch that the channel holds.
BatchFrames(i, j) ==
    [k \in 1..(j + 1 - i) |->
        PxFrame(publisherValue[i + k - 1].x, publisherValue[i + k - 1].y,
                publisherValue[i + k - 1].color)]

\* A connection is in handle_new_subscription_data, at a write_frame that
\* waits for the socket: data, the Ref that borrow() returned, is alive, and
\* with it the read lock of the channel's value.
HoldsRef(c) == pc[c] = "push"

\* The second branch of the select: changed() has returned, borrow() takes
\* the read lock, and handle_new_subscription_data writes the frames of the
\* batch until it has written them all or the socket takes no more and
\* write_frame waits.
ChangedReturns(c) ==
    /\ pc[c] = "loop"
    /\ data_subscription[c] = "unseen"
    /\ data_subscription' = [data_subscription EXCEPT ![c] = "seen"]
    /\ \E n \in 0..Len(publisherValue) :
          /\ out' = [out EXCEPT ![c] = BatchFrames(1, n)]
          /\ delivered' = [delivered EXCEPT ![c] = delivered[c] \cup
                  {<<publisherValue[i].x, publisherValue[i].y, publisherValue[i].color>> :
                      i \in 1..n}]
          /\ IF n = Len(publisherValue)
             THEN UNCHANGED <<pc, pushed>>
             ELSE /\ pc' = [pc EXCEPT ![c] = "push"]
                  /\ pushed' = [pushed EXCEPT ![c] = n]
    /\ UNCHANGED threadBlocked
    /\ UNCHANGED <<request, response, subscribed, held, missed, owed, reqCount>>
    /\ UNCHANGED <<coordVars, trackerVars, encVars>>
    /\ UNCHANGED <<stream, convVars, udpVars, listenPc, readVars, runVars, encRead, wsVars>>
    /\ UNCHANGED <<putMsg, sentBytes, socketReads, writeVars>>

\* The socket takes bytes again: the write_frame that waited returns and
\* the loop over the batch goes on, to its end, where the Ref is dropped,
\* or to the next write that waits.
SocketWritable(c) ==
    /\ HoldsRef(c)
    /\ \E n \in (pushed[c] + 1)..Len(publisherValue) :
          /\ out' = [out EXCEPT ![c] = out[c] \o BatchFrames(pushed[c] + 1, n)]
          /\ delivered' = [delivered EXCEPT ![c] = delivered[c] \cup
                  {<<publisherValue[i].x, publisherValue[i].y, publisherValue[i].color>> :
                      i \in (pushed[c] + 1)..n}]
          /\ IF n = Len(publisherValue)
             THEN /\ pc' = [pc EXCEPT ![c] = "loop"]
                  /\ pushed' = [pushed EXCEPT ![c] = 0]
             ELSE /\ pushed' = [pushed EXCEPT ![c] = n]
                  /\ UNCHANGED pc
    /\ UNCHANGED threadBlocked
    /\ UNCHANGED <<request, response, subscribed, data_subscription, held, missed, owed, reqCount>>
    /\ UNCHANGED <<coordVars, trackerVars, encVars>>
    /\ UNCHANGED <<stream, convVars, udpVars, listenPc, readVars, runVars, encRead, wsVars>>
    /\ UNCHANGED <<putMsg, sentBytes, socketReads, writeVars>>

\* Handler<TriggerUpdatesMsg> beside connections that hold a Ref:
\* publisher.send takes the write lock of the channel's value, and while a
\* Ref holds the read lock it waits for it, on the thread that every
\* connection runs on.
PublishBesideRefs ==
    IF ~IsClosed /\ \E c \in Conns : HoldsRef(c)
    THEN /\ trackerMailbox # <<>>
         /\ Head(trackerMailbox).type = "Trigger"
         /\ threadBlocked' = TRUE
         /\ UNCHANGED pushed
         /\ UNCHANGED <<coordVars, trackerVars, connVars, encVars>>
         /\ UNCHANGED <<stream, convVars, udpVars, listenPc, readVars, runVars, encRead, wsVars>>
         /\ UNCHANGED <<putMsg, sentBytes, socketReads, writeVars>>
    ELSE HandleTriggerUpdatesMsg

\* The clients, the coordinator, the tracker and the subscribers' writes, all
\* on one thread: nothing runs while the thread waits for a lock.
PushNext ==
    \/ \E c \in Conns : \E req \in PushRequests(c) : ~threadBlocked /\ ReadFrame(c, req)
    \/ \E c \in Conns : ~threadBlocked /\ HandleGetSizeMsg(c)
    \/ \E c \in Conns : ~threadBlocked /\ HandleSetPixelMsg(c)
    \/ \E c \in Conns : ~threadBlocked /\ WriteResponse(c)
    \/ \E c \in Conns : ~threadBlocked /\ ChangedReturns(c)
    \/ \E c \in Conns : ~threadBlocked /\ SocketWritable(c)
    \/ ~threadBlocked /\ ForwardSetPixel
    \/ ~threadBlocked /\ IntervalTick
    \/ ~threadBlocked /\ TrackerHandleSetPixelMsg
    \/ ~threadBlocked /\ HandleSubscribeMsg
    \/ ~threadBlocked /\ PublishBesideRefs

PushSpec == Init /\ [][PushNext]_vars

\* ------------------------------------------------------------------ write_frame, byte by byte
\* The frames a connection writes: up to two bytes that are not the
\* terminator.
FramesToWrite == {<<>>, <<"a">>, <<"a", "a">>}

\* Frame::encode: the frame's bytes and the terminator.
FrameEncode(frame) == frame \o <<Newline>>

\* write_frame is called: frame.encode() is the buffer that write_buf is
\* given.
WriteFrame(c, frame) ==
    /\ writeResult[c] # "pending"
    /\ Len(sockOut[c]) < MaxBytes
    /\ writeBuf' = [writeBuf EXCEPT ![c] = FrameEncode(frame)]
    /\ writeResult' = [writeResult EXCEPT ![c] = "pending"]
    /\ UNCHANGED sockOut
    /\ UNCHANGED <<putMsg, sentBytes, socketReads, pushVars>>
    /\ UNCHANGED <<coordVars, trackerVars, connVars, encVars>>
    /\ UNCHANGED <<stream, convVars, udpVars, listenPc, readVars, runVars, encRead, wsVars>>

\* AsyncWriteExt::write_buf: one write of the buffer to the socket, which
\* takes the first n of its bytes; the buffer is advanced by n and n is
\* returned.  write_frame drops the buffer and returns Ok(()).
WriteBuf(c) ==
    /\ writeResult[c] = "pending"
    /\ \E n \in 1..Len(writeBuf[c]) :
          /\ sockOut' = [sockOut EXCEPT ![c] = sockOut[c] \o SubSeq(writeBuf[c], 1, n)]
          /\ writeBuf' = [writeBuf EXCEPT ![c] = Advance(writeBuf[c], n)]
    /\ writeResult' = [writeResult EXCEPT ![c] = "Ok"]
    /\ UNCHANGED <<putMsg, sentBytes, socketReads, pushVars>>
    /\ UNCHANGED <<coordVars, trackerVars, connVars, encVars>>
    /\ UNCHANGED <<stream, convVars, udpVars, listenPc, readVars, runVars, encRead, wsVars>>

\* The write fails: write_buf returns the error and `?` returns it from
\* write_frame.
WriteBufFails(c) ==
    /\ writeResult[c] = "pending"
    /\ writeResult' = [writeResult EXCEPT ![c] = "Err"]
    /\ UNCHANGED <<writeBuf, sockOut>>
    /\ UNCHANGED <<putMsg, sentBytes, socketReads, pushVars>>
    /\ UNCHANGED <<coordVars, trackerVars, connVars, encVars>>
    /\ UNCHANGED <<stream, convVars, udpVars, listenPc, readVars, runVars, encRead, wsVars>>

\* Connections that write frames to sockets that take any part of a write.
WriteNext ==
    \/ \E c \in Conns : \E frame \in FramesToWrite : WriteFrame(c, frame)
    \/ \E c \in Conns : WriteBuf(c)
    \/ \E c \in Conns : WriteBufFails(c)

WriteSpec == Init /\ [][WriteNext]_vars

\* ------------------------------------------------------------------ forwarding to a stopped tracker
\* What the clients of ForwardSpec send: no subscriptions, so that the
\* tracker matters to them through the coordinator only.
ForwardRequests ==
    {[kind |-> "Size"], [kind |-> "PxGet", x |-> 0, y |-> 0]}
        \cup {[kind |-> "PxSet", x |-> 0, y |-> 0, color |-> col] : col \in Colors}

\* The tracker, started with start(), stops: its mailbox is closed, what the
\* mailbox holds is never handled, and a send to its address resolves to an
\* error.
TrackerStops ==
    /\ trackerRun = "started"
    /\ trackerRun' = "stopped"
    /\ UNCHANGED <<coordRun, trigger_task_handle>>
    /\ UNCHANGED <<coordVars, trackerVars, connVars, encVars>>
    /\ UNCHANGED <<stream, convVars, udpVars, listenPc, readVars, encRead, wsVars, extraVars>>

\* A future spawned by Handler<SetPixelMsg> finds the tracker's mailbox
\* closed, before or after its message went in: send(msg).await is an Err
\* and the unwrap panics.  The future runs in the coordinator's context, so
\* the panic ends the coordinator with everything it had spawned.
ForwardSetPixelFails ==
    /\ coordRun = "started"
    /\ trackerRun = "stopped"
    /\ \/ spawned # <<>>
       \/ \E i \in 1..Len(trackerMailbox) : trackerMailbox[i].type = "SetPixel"
    /\ coordRun' = "panicked"
    /\ spawned' = <<>>
    /\ UNCHANGED <<trackerRun, trigger_task_handle>>
    /\ UNCHANGED <<pixmap, setCount, written, applied>>
    /\ UNCHANGED <<trackerVars, connVars, encVars>>
    /\ UNCHANGED <<stream, convVars, udpVars, listenPc, readVars, encRead, wsVars, extraVars>>

\* handle_request sends to a coordinator that is gone: send(..).await is a
\* MailboxError, the first ? returns it, and handle_frame turns it into an
\* error frame.
CoordinatorGone(c) ==
    /\ coordRun = "panicked"
    /\ pc[c] \in {"size", "px"}
    /\ response' = [response EXCEPT ![c] = ErrorFrame("mailbox")]
    /\ pc' = [pc EXCEPT ![c] = "write"]
    /\ UNCHANGED <<request, subscribed, data_subscription, held, out,
                   delivered, missed, owed, reqCount>>
    /\ UNCHANGED <<coordVars, trackerVars, encVars, auxVars>>

\* Clients, the coordinator while it runs, and the tracker while it runs.
ForwardNext ==
    \/ \E c \in Conns : \E req \in ForwardRequests : ReadFrame(c, req)
    \/ \E c \in Conns : coordRun = "started" /\ HandleGetSizeMsg(c)
    \/ \E c \in Conns : coordRun = "started" /\ HandleGetPixelMsg(c)
    \/ \E c \in Conns : coordRun = "started" /\ HandleSetPixelMsg(c)
    \/ \E c \in Conns : CoordinatorGone(c)
    \/ \E c \in Conns : WriteResponse(c)
    \/ coordRun = "started" /\ trackerRun = "started" /\ ForwardSetPixel
    \/ trackerRun = "started" /\ TrackerHandleSetPixelMsg
    \/ TrackerStops
    \/ ForwardSetPixelFails

ForwardSpec == Init /\ [][ForwardNext]_vars

\* ------------------------------------------------------------------ tracker restart
\* What the clients of RestartSpec send.
RestartRequests ==
    {[kind |-> "Subscribe"]}
        \cup {[kind |-> "PxSet", x |-> 0, y |-> 0, color |-> col] : col \in Colors}

\* Actor::started of TrackerActor, by the value of the trigger_task field it
\* finds: it panics when the field holds a handle, and otherwise spawns the
\* interval loop and stores its handle.
TrackerStarted(handle, task) ==
    IF handle = "Some"
    THEN [run |-> "panicked", task |-> task, handle |-> "Some"]
    ELSE [run |-> "started", task |-> "tick", handle |-> "Some"]

\* A supervisor restarts the tracker: the context calls stopped(), the
\* supervisor calls restarting() and the fresh context calls started(), all
\* on the same TrackerActor and within one poll of the supervisor.
\* stopped() panics when the field holds no handle; otherwise it cancels the
\* interval loop and leaves the handle in the field.  restarting() clears
\* the tracker's set.  The mailbox stays as it is.
TrackerRestarts ==
    /\ trackerRun = "started"
    /\ IF trigger_task_handle = "None"
       THEN /\ trackerRun' = "panicked"
            /\ UNCHANGED <<changes, lastAdded, trigger_task, trigger_task_handle>>
       ELSE LET after == TrackerStarted(trigger_task_handle, "cancelled")
            IN  /\ changes' = {}
                /\ lastAdded' = [p \in ReqCoords |-> NoColor]
                /\ trackerRun' = after.run
                /\ trigger_task' = after.task
                /\ trigger_task_handle' = after.handle
    /\ UNCHANGED <<trackerMailbox, publisherValue, trackerLastSeq, coordRun>>
    /\ UNCHANGED <<coordVars, connVars, encVars>>
    /\ UNCHANGED <<stream, convVars, udpVars, listenPc, readVars, encRead, wsVars, extraVars>>

\* Clients, the coordinator, and the tracker while it runs.
RestartNext ==
    \/ \E c \in Conns : \E req \in RestartRequests : ReadFrame(c, req)
    \/ \E c \in Conns : HandleGetSizeMsg(c)
    \/ \E c \in Conns : HandleSetPixelMsg(c)
    \/ \E c \in Conns : WriteResponse(c)
    \/ \E c \in Conns : ReceiveBatch(c)
    \/ ForwardSetPixel
    \/ trackerRun = "started" /\ IntervalTick
    \/ trackerRun = "started" /\ TrackerHandleSetPixelMsg
    \/ trackerRun = "started" /\ HandleTriggerUpdatesMsg
    \/ trackerRun = "started" /\ HandleSubscribeMsg
    \/ TrackerRestarts

RestartSpec == Init /\ [][RestartNext]_vars

\* ------------------------------------------------------------------ WebSocket
\* Messages of a WebSocket connection: a text message carries a frame, and
\* the text of no frame is the empty string.
TextMessage(frame) == [kind |-> "Text", frame |-> frame]
EmptyText == TextMessage(NoFrame)
BinaryMessage == [kind |-> "Binary"]

\* The read stream yields Some(Err(e)).
ReadErrorItem == [kind |-> "Error"]

\* What the peers send: SIZE, a PX that sets a pixel, and a binary message.
WsMessages ==
    {TextMessage([kind |-> "Size"]),
     TextMessage([kind |-> "PxSet", x |-> 0, y |-> 0, color |-> <<1, 2, 3>>]),
     BinaryMessage}

\* A server that sends a message that is no text back as it came.
OtherMessageReply_Echo(msg) == msg

\* process_received, the arm of every message that is no text.
OtherMessageReply(msg) == TextMessage(NoFrame)

\* read.next() yields an item.
WsReceive(c, msg) ==
    /\ wsPc[c] = "next"
    /\ reqCount < MaxReqs
    /\ reqCount' = reqCount + 1
    /\ wsMsg' = [wsMsg EXCEPT ![c] = msg]
    /\ wsPc' = [wsPc EXCEPT ![c] = "process_received"]
    /\ UNCHANGED <<wsListenPc, wsSent>>
    /\ UNCHANGED <<pc, request, response, subscribed, data_subscription, held, out,
                   delivered, missed, owed>>
    /\ UNCHANGED <<coordVars, trackerVars, encVars>>
    /\ UNCHANGED <<stream, convVars, udpVars, listenPc, readVars, runVars, encRead, extraVars>>

\* process_received: a text message goes through handle_frame, with the
\* coordinator's handlers it awaits, and its response or the empty text is
\* the reply; any other message and a read error are replied to with the
\* empty text.
WsProcessReceived(c) ==
    /\ wsPc[c] = "process_received"
    /\ IF wsMsg[c].kind = "Text"
       THEN LET st == UdpHandleFrame(
                        [data |-> pixmap, spawned |-> spawned, setCount |-> setCount,
                         written |-> written, applied |-> applied,
                         dispatched |-> <<>>, sent |-> <<>>], wsMsg[c].frame, c)
            IN  /\ pixmap' = st.data
                /\ spawned' = st.spawned
                /\ setCount' = st.setCount
                /\ written' = st.written
                /\ applied' = st.applied
                /\ wsMsg' = [wsMsg EXCEPT ![c] =
                        IF st.sent = <<>> THEN EmptyText ELSE TextMessage(st.sent[1].frame)]
       ELSE /\ wsMsg' = [wsMsg EXCEPT ![c] =
                    IF wsMsg[c] = ReadErrorItem THEN EmptyText ELSE OtherMessageReply(wsMsg[c])]
            /\ UNCHANGED coordVars
    /\ wsPc' = [wsPc EXCEPT ![c] = "send"]
    /\ UNCHANGED <<wsListenPc, wsSent>>
    /\ UNCHANGED <<trackerVars, connVars, encVars>>
    /\ UNCHANGED <<stream, convVars, udpVars, listenPc, readVars, runVars, encRead, extraVars>>

\* write.send(response) succeeds, and the loop goes back to read.next().
WsSend(c) ==
    /\ wsPc[c] = "send"
    /\ wsSent' = [wsSent EXCEPT ![c] = Append(wsSent[c], wsMsg[c])]
    /\ wsMsg' = [wsMsg EXCEPT ![c] = NoMessage]
    /\ wsPc' = [wsPc EXCEPT ![c] = "next"]
    /\ UNCHANGED wsListenPc
    /\ UNCHANGED <<coordVars, trackerVars, connVars, encVars>>
    /\ UNCHANGED <<stream, convVars, udpVars, listenPc, readVars, runVars, encRead, extraVars>>

\* read.next() yields None: the loop and the connection's task end.
WsStreamEnds(c) ==
    /\ wsPc[c] = "next"
    /\ wsPc' = [wsPc EXCEPT ![c] = "closed"]
    /\ UNCHANGED <<wsListenPc, wsMsg, wsSent>>
    /\ UNCHANGED <<coordVars, trackerVars, connVars, encVars>>
    /\ UNCHANGED <<stream, convVars, udpVars, listenPc, readVars, runVars, encRead, extraVars>>

\* listen accepts a socket, and the handler of ClientConnectedMsg spawns
\* handle_connection for it; the connection takes the place of an ended one.
WsAccept(c) ==
    /\ wsListenPc = "accept"
    /\ wsPc[c] = "closed"
    /\ wsPc' = [wsPc EXCEPT ![c] = "next"]
    /\ wsMsg' = [wsMsg EXCEPT ![c] = NoMessage]
    /\ wsSent' = [wsSent EXCEPT ![c] = <<>>]
    /\ UNCHANGED wsListenPc
    /\ UNCHANGED <<coordVars, trackerVars, connVars, encVars>>
    /\ UNCHANGED <<stream, convVars, udpVars, listenPc, readVars, runVars, encRead, extraVars>>

WsNext ==
    \/ \E c \in Conns : \E msg \in WsMessages : WsReceive(c, msg)
    \/ \E c \in Conns : WsProcessReceived(c)
    \/ \E c \in Conns : WsSend(c)
    \/ \E c \in Conns : WsStreamEnds(c)
    \/ \E c \in Conns : WsAccept(c)

WsSpec == Init /\ [][WsNext]_vars

\* write.send(response) fails and handle_connection unwraps the error: the
\* panic unwinds the WsServer's context, in which the listener and every
\* connection run.
WsSendFails(c) ==
    /\ wsPc[c] = "send"
    /\ wsListenPc' = "panicked"
    /\ wsPc' = [d \in Conns |-> IF wsPc[d] = "closed" THEN "closed" ELSE "aborted"]
    /\ UNCHANGED <<wsMsg, wsSent>>
    /\ UNCHANGED <<coordVars, trackerVars, connVars, encVars>>
    /\ UNCHANGED <<stream, convVars, udpVars, listenPc, readVars, runVars, encRead, extraVars>>

\* The WebSocket server with sockets whose reads and writes can fail.
WsFailNext ==
    \/ \E c \in Conns : \E msg \in WsMessages \cup {ReadErrorItem} : WsReceive(c, msg)
    \/ \E c \in Conns : WsProcessReceived(c)
    \/ \E c \in Conns : WsSend(c)
    \/ \E c \in Conns : WsStreamEnds(c)
    \/ \E c \in Conns : WsAccept(c)
    \/ \E c \in Conns : WsSendFails(c)

WsFailSpec == Init /\ [][WsFailNext]_vars

\* ------------------------------------------------------------------ socket write failures
\* A write to the socket fails.  Where the code returns false the connection's
\* loop ends and the connection with its receiver is dropped.  Where the code
\* unwraps the result, the task panics: the connection futures are all spawned
\* into the TcpServer's context, so the panic unwinds that context's task and
\* every connection in it is dropped with it (a build that aborts on panic ends
\* the whole process instead; the connections are gone either way).
PcAfterPanic(c) ==
    [d \in Conns |->
        IF d = c THEN "panicked" ELSE IF pc[d] = "closed" THEN "closed" ELSE "aborted"]

\* handle_request_frame: write_frame(response) returns an error, return false
WriteResponseFails(c) ==
    /\ pc[c] = "write"
    /\ response[c] # NoFrame
    /\ pc' = [pc EXCEPT ![c] = "closed"]
    /\ response' = [response EXCEPT ![c] = NoFrame]
    /\ request' = [request EXCEPT ![c] = NoRequest]
    /\ data_subscription' = [data_subscription EXCEPT ![c] = "none"]
    /\ held' = [held EXCEPT ![c] = "none"]
    /\ UNCHANGED <<subscribed, out, delivered, missed, owed, reqCount>>
    /\ UNCHANGED <<coordVars, trackerVars, encVars, auxVars>>

\* handle_request_frame: the tracker has answered the SubscribeMsg, and
\* write_frame(SubscriptionActivated) returns an error that is unwrapped
SubscribedWriteFails ==
    /\ trackerMailbox # <<>>
    /\ Head(trackerMailbox).type = "Subscribe"
    /\ LET c == Head(trackerMailbox).conn
       IN  /\ pc[c] = "sub"
           /\ pc' = PcAfterPanic(c)
    /\ data_subscription' = [d \in Conns |-> "none"]
    /\ held' = [d \in Conns |-> "none"]
    /\ trackerMailbox' = Tail(trackerMailbox)
    /\ UNCHANGED <<changes, trigger_task, publisherValue, trackerLastSeq, lastAdded>>
    /\ UNCHANGED <<request, response, subscribed, out, delivered, missed, owed, reqCount>>
    /\ UNCHANGED <<coordVars, encVars, auxVars>>

\* handle_new_subscription_data: one of the write_frame calls of the batch
\* returns an error that is unwrapped; the frames before it have been written
PushWriteFails(c) ==
    /\ pc[c] = "loop"
    /\ data_subscription[c] = "unseen"
    /\ publisherValue # <<>>
    /\ \E n \in 0..(Len(publisherValue) - 1) :
          out' = [out EXCEPT ![c] =
            [i \in 1..n |->
                PxFrame(publisherValue[i].x, publisherValue[i].y, publisherValue[i].color)]]
    /\ pc' = PcAfterPanic(c)
    /\ data_subscription' = [d \in Conns |-> "none"]
    /\ held' = [d \in Conns |-> "none"]
    /\ UNCHANGED <<request, response, subscribed, delivered, missed, owed, reqCount>>
    /\ UNCHANGED <<coordVars, trackerVars, encVars, auxVars>>

\* A SubscribeMsg whose sender has been dropped with its connection: the
\* mailbox's envelope sees that nobody waits for the answer and skips the
\* handler.
DiscardSubscribeMsg ==
    /\ trackerMailbox # <<>>
    /\ Head(trackerMailbox).type = "Subscribe"
    /\ pc[Head(trackerMailbox).conn] # "sub"
    /\ trackerMailbox' = Tail(trackerMailbox)
    /\ UNCHANGED <<changes, trigger_task, publisherValue, trackerLastSeq, lastAdded>>
    /\ UNCHANGED <<coordVars, connVars, encVars, auxVars>>

\* The server with socket writes that can fail.
FailNext ==
    \/ \E c \in Conns : \E req \in Requests : ReadFrame(c, req)
    \/ \E c \in Conns : ReadError(c)
    \/ \E c \in Conns : HandleGetSizeMsg(c)
    \/ \E c \in Conns : HandleGetPixelMsg(c)
    \/ \E c \in Conns : HandleSetPixelMsg(c)
    \/ \E c \in Conns : WriteResponse(c)
    \/ \E c \in Conns : ReceiveBatch(c)
    \/ ForwardSetPixel
    \/ IntervalTick
    \/ TrackerHandleSetPixelMsg
    \/ HandleTriggerUpdatesMsg
    \/ HandleSubscribeMsg
    \/ \E c \in Conns : WriteResponseFails(c)
    \/ SubscribedWriteFails
    \/ \E c \in Conns : PushWriteFails(c)
    \/ DiscardSubscribeMsg

FailSpec == Init /\ [][FailNext]_vars

\* ------------------------------------------------------------------ properties
\* What a connection's request asks for
ReqInBounds(c) == request[c].x < W /\ request[c].y < H
ReqIndex(c) == request[c].y * W + request[c].x

\* C1: once a SetPixel of color k to the in-bounds pixel (x, y) has been
\* handled, a GetPixel of (x, y) that the coordinator handles before another
\* SetPixel of that pixel is answered with PX x y k.
C1_SetThenGet ==
    [][\A c \in Conns :
        (/\ pc[c] = "px"
         /\ request[c].kind = "PxGet"
         /\ pc'[c] = "write"
         /\ ReqInBounds(c)
         /\ written[ReqIndex(c)] # NoColor)
        => response'[c] = PxFrame(request[c].x, request[c].y, written[ReqIndex(c)])]_vars

\* A GetPixel has been answered with a color that some SetPixel wrote.
C1_Witness ==
    \E c \in Conns :
        /\ pc[c] = "write"
        /\ request[c].kind = "PxGet"
        /\ response[c].kind = "Px"
        /\ response[c].color \in Colors
        /\ response[c].color = written[ReqIndex(c)]

\* C2: the tracker's set holds at most one change per pixel, and the change it
\* holds for a pixel has the color of the last add for that pixel.
C2_LastAddWins ==
    /\ \A a, b \in changes : a.coordinates = b.coordinates => a = b
    /\ \A ch \in changes : ch.color = lastAdded[ch.coordinates]

\* C3: when a connection that holds a receiver has handled UNSUBSCRIBE, the
\* receiver is dropped and UNSUBSCRIBED is written, and a batch is pushed only
\* to a connection whose preference is to be subscribed.
C3_Unsubscribe ==
    [][\A c \in Conns :
        /\ (/\ pc[c] = "write"
            /\ request[c].kind = "Unsubscribe"
            /\ held[c] # "none"
            /\ pc'[c] # "write")
           => /\ data_subscription'[c] = "none"
              /\ held'[c] = "none"
              /\ \E i \in 1..Len(out'[c]) : out'[c][i] = UnsubscribedFrame
        /\ (pc[c] = "loop" /\ pc'[c] = "loop" /\ delivered'[c] # delivered[c])
           => subscribed[c]]_vars

\* C4: every change the tracker holds or has published is a SetPixel that the
\* pixmap applied; a write outside the pixmap never reaches the tracker.
C4_OnlyAppliedChanges ==
    /\ \A ch \in changes :
            <<ch.coordinates[1], ch.coordinates[2], ch.color>> \in applied
    /\ \A i \in 1..Len(publisherValue) :
            <<publisherValue[i].x, publisherValue[i].y, publisherValue[i].color>> \in applied

WritesEnded == reqCount = MaxReqs /\ \A c \in Conns : pc[c] = "loop"

\* C6: an encoder's cache becomes the encoding of the pixmap as it then is: when
\* the writes have ended and the encoder has no step left to take, its cache is
\* the encoding of the pixmap.
C6_CacheFollowsPixmap ==
    \A e \in Encoders :
        (WritesEnded /\ encPc[e] = "done") => cache[e] = Encode(e, W, H, pixmap)

\* A subscribed connection at rest: no change is under way to the tracker or in
\* its set, and the connection has seen the channel's value.
Quiescent(c) ==
    /\ subscribed[c]
    /\ pc[c] = "loop"
    /\ data_subscription[c] = "seen"
    /\ spawned = <<>>
    /\ trackerMailbox = <<>>
    /\ changes = {}

\* C7: a subscribed connection that has missed no value of the channel and has
\* received everything that was under way has been pushed every write that was
\* applied since it subscribed.
C7_SubscriberGetsWrites ==
    \A c \in Conns : (Quiescent(c) /\ ~missed[c]) => owed[c] \subseteq delivered[c]

\* The triples of the channel's value and of the tracker's set
PublishedTriples ==
    {<<publisherValue[i].x, publisherValue[i].y, publisherValue[i].color>> :
        i \in 1..Len(publisherValue)}
ChangeTriples == {<<ch.coordinates[1], ch.coordinates[2], ch.color>> : ch \in changes}
TriggerHandled == trigger_task = "sent" /\ trigger_task' = "tick"

C9_BoundsCheck ==
    [][\A c \in Conns :
        /\ (pc[c] = "px" /\ request[c].kind = "PxSet" /\ pc'[c] = "write")
           => IF ReqInBounds(c)
              THEN /\ response'[c] = NoFrame
                   /\ pixmap' = [pixmap EXCEPT ![ReqIndex(c) + 1] = request[c].color]
              ELSE /\ response'[c].kind = "Error"
                   /\ pixmap' = pixmap
        /\ (pc[c] = "px" /\ request[c].kind = "PxGet" /\ pc'[c] = "write")
           => IF ReqInBounds(c)
              THEN response'[c] = PxFrame(request[c].x, request[c].y, pixmap[ReqIndex(c) + 1])
              ELSE response'[c].kind = "Error"]_vars

\* A SetPixel outside the pixmap has failed on a pixmap that holds a write.
C9_Witness ==
    \E c \in Conns :
        /\ pc[c] = "write"
        /\ request[c].kind = "PxSet"
        /\ ~ReqInBounds(c)
        /\ response[c].kind = "Error"
        /\ pixmap # NewPixmap

\* The request is one that does not parse or that the pixmap refuses.
IsErrorRequest(c) ==
    \/ request[c].kind = "Malformed"
    \/ request[c].kind \in {"PxGet", "PxSet"} /\ ~ReqInBounds(c)

\* C10: a request that does not parse or that the pixmap refuses is answered
\* with exactly one error frame, the connection goes on with its loop, and the
\* request it reads next is served as on a connection that had no error.
C10_ErrorKeepsConnection ==
    [][\A c \in Conns :
        /\ (pc[c] = "write" /\ pc'[c] # "write")
           => /\ pc'[c] \in {"loop", "sub"}
              /\ IF IsErrorRequest(c)
                 THEN /\ Len(out'[c]) = 1
                      /\ out'[c][1].kind = "Error"
                 ELSE \A i \in 1..Len(out'[c]) : out'[c][i].kind # "Error"
        /\ (pc[c] = "sub" /\ pc'[c] # "sub")
           => /\ pc'[c] = "loop"
              /\ Len(out'[c]) = Len(out[c]) + 1
              /\ out'[c][Len(out'[c])] = SubscribedFrame
        /\ (pc[c] = "size" /\ request[c].kind = "Size" /\ pc'[c] # "size")
           => response'[c] = SizeFrame(W, H)
        /\ (pc[c] = "size" /\ request[c].kind = "Help" /\ pc'[c] # "size")
           => response'[c] = HelpFrame]_vars

\* A connection whose last request was answered with an error frame has the
\* answer to its next request, SIZE, at hand.
C10_Witness ==
    \E c \in Conns :
        /\ pc[c] = "write"
        /\ request[c].kind = "Size"
        /\ response[c] = SizeFrame(W, H)
        /\ Len(out[c]) = 1
        /\ out[c][1].kind = "Error"

\* The connection's task has ended.
Ended(c) == pc[c] \in {"closed", "panicked", "aborted"}

\* C11: the step in which a connection's task ends, by a failed read or a
\* failed write, leaves every other connection's task where it was.
C11_WriteFailureIsLocal ==
    [][\A c \in Conns :
        (~Ended(c) /\ Ended(c)')
        => \A d \in Conns \ {c} : pc'[d] = pc[d]]_vars

Receiver(c) == IF held[c] # "none" THEN held[c] ELSE data_subscription[c]
PushedFrames(value) == [i \in 1..Len(value) |-> PxFrame(value[i].x, value[i].y, value[i].color)]

\* C13: a subscriber is woken only for a value it has not seen, it then writes
\* the channel's value of that moment, which is the latest one published, and
\* has seen it; only a flush makes a value unseen again, so no batch is written
\* twice and none older than the last one written.
C13_LatestValueOnce ==
    [][\A c \in Conns :
        /\ (pc[c] = "loop" /\ pc'[c] = "loop" /\ out'[c] # out[c])
           => /\ data_subscription[c] = "unseen"
              /\ data_subscription'[c] = "seen"
        /\ (Receiver(c) = "unseen" /\ Receiver(c)' = "seen")
           => /\ out'[c] = PushedFrames(publisherValue)
              /\ publisherValue' = publisherValue
        /\ (Receiver(c) # "unseen" /\ Receiver(c)' = "unseen")
           => /\ TriggerHandled
              /\ PublishedTriples' = ChangeTriples]_vars

\* A subscriber that was not woken for one batch has been woken for a later
\* one and has written it.
C13_Witness ==
    \E c \in Conns :
        /\ missed[c]
        /\ data_subscription[c] = "seen"
        /\ out[c] # <<>>
        /\ out[c] = PushedFrames(publisherValue)

\* The frames of a connection's byte stream that the coordinator has been
\* asked to handle and has answered: all but the one still on its way.
AnsweredFrames(c) ==
    IF pc[c] \in {"size", "px"}
    THEN SubSeq(stream[c], 1, Len(stream[c]) - 1)
    ELSE stream[c]
\* The SetPixelMsg of connection c in the order the coordinator handled them.
HandledOf(c) ==
    LET own == SelectSeq(spawned, LAMBDA m : m.color \in WriterColors(c))
    IN  [i \in 1..Len(own) |->
            [kind |-> "PxSet", x |-> own[i].x, y |-> own[i].y, color |-> own[i].color]]
FramesAt(frames, x, y) == SelectSeq(frames, LAMBDA f : f.x = x /\ f.y = y)

\* C14: the coordinator has handled a connection's SetPixel frames in the order
\* of its byte stream, with at most the last one read still outstanding; a
\* pixel that only this connection has written holds the color of the last of
\* its answered frames for that pixel.
C14_StreamOrder ==
    \A c \in Conns :
        /\ HandledOf(c) = AnsweredFrames(c)
        /\ \A x \in 0..(W - 1), y \in 0..(H - 1) :
              LET mine == FramesAt(AnsweredFrames(c), x, y)
              IN  (/\ mine # <<>>
                   /\ \A d \in Conns \ {c} : FramesAt(stream[d], x, y) = <<>>)
                  => pixmap[y * W + x + 1] = mine[Len(mine)].color

\* A connection has written one pixel twice, with two colors, both writes are
\* answered and nobody else has written that pixel.
C14_Witness ==
    \E c \in Conns : \E x \in 0..(W - 1), y \in 0..(H - 1) :
        LET mine == FramesAt(stream[c], x, y)
        IN  /\ pc[c] = "loop"
            /\ Len(mine) >= 2
            /\ mine[1].color # mine[Len(mine)].color
            /\ \A d \in Conns \ {c} : FramesAt(stream[d], x, y) = <<>>

\* What a base64 text decodes to: three bytes for every four characters, less
\* one byte for every padding character.
Base64Decode(text) ==
    LET pads == Cardinality({k \in 1..Len(text) : text[k] = Base64Pad})
        val(k) == IF text[k] = Base64Pad THEN 0 ELSE text[k]
        word(g) == val(4 * g + 1) * 262144 + val(4 * g + 2) * 4096
                   + val(4 * g + 3) * 64 + val(4 * g + 4)
        byte(g, j) ==
            CASE j = 0 -> word(g) \div 65536
              [] j = 1 -> (word(g) \div 256) % 256
              [] j = 2 -> word(g) % 256
    IN  [k \in 1..(3 * (Len(text) \div 4) - pads) |-> byte((k - 1) \div 3, (k - 1) % 3)]

\* C15: what the rgb64 encoder has stored decodes to 3 * W * H bytes, and the
\* three bytes of pixel i = y * W + x are its red, green and blue channel.
C15_Rgb64Layout ==
    encPc["rgb64"] = "done" =>
        LET bytes == Base64Decode(cache["rgb64"])
        IN  /\ Len(bytes) = 3 * W * H
            /\ \A x \in 0..(W - 1), y \in 0..(H - 1) :
                  LET i == y * W + x
                  IN  /\ bytes[3 * i + 1] = pixmap[i + 1][1]
                      /\ bytes[3 * i + 2] = pixmap[i + 1][2]
                      /\ bytes[3 * i + 3] = pixmap[i + 1][3]

\* The rgb64 encoder has encoded a pixmap whose first pixel has three different
\* channels.
C15_Witness ==
    /\ encPc["rgb64"] = "done"
    /\ cache["rgb64"] # <<>>
    /\ pixmap[1] = <<1, 2, 3>>

\* C16: what the rgba64 encoder has stored decodes to 4 * W * H bytes, and the
\* four bytes of pixel i = y * W + x are its red, green and blue channel and 255.
C16_Rgba64Layout ==
    encPc["rgba64"] = "done" =>
        LET bytes == Base64Decode(cache["rgba64"])
        IN  /\ Len(bytes) = 4 * W * H
            /\ \A x \in 0..(W - 1), y \in 0..(H - 1) :
                  LET i == y * W + x
                  IN  /\ bytes[4 * i + 1] = pixmap[i + 1][1]
                      /\ bytes[4 * i + 2] = pixmap[i + 1][2]
                      /\ bytes[4 * i + 3] = pixmap[i + 1][3]
                      /\ bytes[4 * i + 4] = 255

\* The rgba64 encoder has encoded a pixmap whose last pixel has three different
\* channels.
C16_Witness ==
    /\ encPc["rgba64"] = "done"
    /\ cache["rgba64"] # <<>>
    /\ pixmap[W * H] = <<170, 187, 204>>

\* C17: a color converted to u32 is 0x00RRGGBB, and converting that u32 back
\* gives the color again.
C17_ColorRoundTrip ==
    convBack # NoColor =>
        /\ convWord = <<convColor[1], convColor[2] * 256 + convColor[3]>>
        /\ convBack = convColor

\* The tracker's get_changes is called: a TriggerUpdatesMsg is handled while a
\* receiver exists.
GetChangesCalled ==
    /\ TriggerHandled
    /\ \E c \in Conns : data_subscription[c] # "none" \/ held[c] # "none"
AddedSinceDrain == {p \in ReqCoords : lastAdded[p] # NoColor}

\* C18: get_changes empties the tracker; every change it returns is for a pixel
\* index that was added since the drain before, and every pixel index added
\* since then is returned; with no add since the drain before it returns
\* nothing.
C18_DrainResets ==
    [][GetChangesCalled =>
        /\ changes' = {}
        /\ {m.y * W + m.x : m \in {publisherValue'[i] : i \in 1..Len(publisherValue')}}
              = {p[2] * W + p[1] : p \in AddedSinceDrain}
        /\ \A i \in 1..Len(publisherValue') :
              <<publisherValue'[i].x, publisherValue'[i].y>> \in AddedSinceDrain
        /\ (AddedSinceDrain = {}) => (publisherValue' = <<>>)]_vars

\* A subscriber has been pushed a batch with changes, and a later get_changes,
\* with no add in between, has returned nothing.
C18_Witness ==
    \E c \in Conns :
        /\ delivered[c] # {}
        /\ data_subscription[c] # "none"
        /\ publisherValue = <<>>
        /\ changes = {}
        /\ trigger_task = "tick"
        /\ trackerMailbox = <<>>
        /\ spawned = <<>>

\* C19: get_changes returns as many entries as distinct in-bounds coordinates
\* were added since the drain before, and every entry carries coordinates that
\* were added.
C19_InBoundsNoCollision ==
    [][GetChangesCalled =>
        /\ Len(publisherValue')
              = Cardinality({p \in AddedSinceDrain : InBounds(p[1], p[2])})
        /\ \A i \in 1..Len(publisherValue') :
              <<publisherValue'[i].x, publisherValue'[i].y>> \in AddedSinceDrain]_vars

\* A frame that is answered: every one but a SetPixel inside the pixmap.
HasResponse(frame) == ~(frame.kind = "PxSet" /\ InBounds(frame.x, frame.y))

\* C20: when a received datagram has been processed, all its frames have been
\* dispatched, in their order, and for each frame that has a response one
\* send_to was made, to the address the datagram came from.
C20_DatagramDispatched ==
    (udpPc = "recv_from" /\ udpReceived # NoDatagram) =>
        /\ udpDispatched = udpReceived.frames
        /\ Len(udpSent) = Len(SelectSeq(udpReceived.frames, HasResponse))
        /\ \A i \in 1..Len(udpSent) : udpSent[i].addr = udpReceived.origin

\* C21: the buffer handed to process_received holds what the client sent, all
\* the frames of the datagram that recv_from took from the socket.
C21_BufferIsDatagram ==
    udpPc = "process_received" => udpBuffer = udpReceived.frames

\* The frames of a datagram that are complete.
CompleteFrames(d) == SelectSeq(d.frames, LAMBDA f : f # IncompleteTail)

\* C22: when a received datagram that ends in a tail has been processed, its
\* complete frames, and nothing else, have been dispatched, a SetPixel among
\* them has set its pixel, and responses were sent for complete frames only;
\* for a datagram with no byte nothing was dispatched and nothing sent.
C22_TailStopsProcessing ==
    (/\ udpPc = "recv_from"
     /\ udpReceived # NoDatagram
     /\ \/ udpReceived.frames = <<>>
        \/ udpReceived.frames[Len(udpReceived.frames)] = IncompleteTail) =>
        /\ udpDispatched = CompleteFrames(udpReceived)
        /\ \A i \in 1..Len(CompleteFrames(udpReceived)) :
              LET f == CompleteFrames(udpReceived)[i]
              IN  (f.kind = "PxSet" /\ InBounds(f.x, f.y))
                  => pixmap[f.y * W + f.x + 1] = f.color
        /\ Len(udpSent) = Len(SelectSeq(CompleteFrames(udpReceived), HasResponse))

\* C23: whatever accept returns, the listener goes on accepting and every
\* connection it has accepted goes on being served.
C23_AcceptLoopContinues ==
    /\ listenPc = "accept"
    /\ \A c \in Conns : pc[c] # "aborted"

\* C24: a connection ends only by a read of zero bytes, made when the peer
\* has closed, the socket holds nothing more and the read buffer starts with
\* no complete frame; in that state the connection can do nothing else.  The
\* step writes no frame, and an ended connection writes none later.  The
\* socket is never read while the buffer starts with a complete frame.
C24_EofAfterBufferedFrames ==
    [][\A c \in Conns :
          /\ (pc[c] # "closed" /\ pc'[c] = "closed") =>
                /\ pc[c] = "loop"
                /\ peerClosed[c] /\ sockIn[c] = <<>>
                /\ ~HasFrame(read_buffer[c])
                /\ out'[c] = out[c]
          /\ pc[c] = "closed" => pc'[c] = "closed" /\ out'[c] = out[c]
          /\ sockIn'[c] # sockIn[c] /\ Len(sockIn'[c]) <= Len(sockIn[c]) =>
                ~HasFrame(read_buffer[c])
          /\ (/\ pc[c] = "loop" /\ peerClosed[c] /\ sockIn[c] = <<>>
              /\ ~HasFrame(read_buffer[c]) /\ pc'[c] # pc[c]) => pc'[c] = "closed"
      ]_vars

\* A connection has ended after it handled two frames, the last one read
\* together with the end of the peer's stream, and answered the last.
C24_Witness ==
    \E c \in Conns :
        /\ pc[c] = "closed"
        /\ Len(stream[c]) >= 2
        /\ read_buffer[c] = <<IncompleteTail>>
        /\ out[c] # <<>>

\* C25: the coordinator keeps running when its forward to the tracker fails,
\* and no request is answered with a mailbox error of the coordinator.
C25_CoordinatorKeepsServing ==
    /\ coordRun = "started"
    /\ \A c \in Conns : response[c] # ErrorFrame("mailbox")

\* C26: the tracker is running, also after a restart, and its interval loop
\* is ticking or waiting for the answer to its TriggerUpdatesMsg.
C26_TrackerRestarts ==
    /\ trackerRun = "started"
    /\ trigger_task \in {"tick", "sent"}

\* C27: what the coordinator answers to an encoder's GetRawDataMsg is the
\* whole pixmap as it is in that one step; the cache changes only to the
\* encoding of such an answer, in one step; and a GetEncodedDataMsg is
\* answered with the whole cache.  The cache is empty until then.
C27_CacheIsOneSnapshot ==
    [][\A e \in Encoders :
          /\ (encData'[e] # encData[e] /\ encData'[e] # <<>>) =>
                encData'[e] = pixmap /\ pixmap' = pixmap
          /\ cache'[e] # cache[e] =>
                /\ Len(encData[e]) = W * H
                /\ cache'[e] = Encode(e, W, H, encData[e])
          /\ encRead'[e] # encRead[e] => encRead'[e] = cache[e]
          /\ encPc[e] \in {"tick", "trigger", "size", "data", "encode"} => cache[e] = <<>>
      ]_vars

\* A reader got a cache that encodes a pixmap with a written pixel, and the
\* pixmap has changed since the encoder asked for it.
C27_Witness ==
    \E e \in Encoders :
        /\ encRead[e] = cache[e]
        /\ cache[e] # <<>>
        /\ cache[e] # Encode(e, W, H, NewPixmap)
        /\ cache[e] # Encode(e, W, H, pixmap)

\* C28: processing a binary message changes nothing of the coordinator and
\* sends nothing; its reply is the empty text; and the send that follows
\* sends that one reply, with the connection back at reading the next message.
C28_BinaryIgnored ==
    [][\A c \in Conns :
          /\ (wsPc[c] = "process_received" /\ wsMsg[c] = BinaryMessage
                /\ wsPc'[c] # wsPc[c]) =>
                /\ UNCHANGED <<coordVars, trackerVars, connVars, encVars>>
                /\ wsSent' = wsSent
                /\ wsMsg'[c] = EmptyText
                /\ wsPc'[c] = "send"
          /\ (wsPc[c] = "send" /\ wsPc'[c] # wsPc[c]) =>
                /\ UNCHANGED <<coordVars, trackerVars, connVars, encVars>>
                /\ wsSent'[c] = Append(wsSent[c], wsMsg[c])
                /\ wsPc'[c] = "next"
      ]_vars

\* A connection has replied to a binary message, with no pixel ever set, and
\* has gone on to reply to a SIZE.
C28_Witness ==
    \E c \in Conns :
        /\ setCount = 0
        /\ wsPc[c] = "next"
        /\ wsSent[c] = <<EmptyText, TextMessage(SizeFrame(W, H))>>

\* C29: the step in which a connection's task ends, by the end of its read
\* stream or by a failed send, leaves the listener and every other
\* connection's task where they were.
C29_SocketErrorIsLocal ==
    [][\A c \in Conns :
          (wsPc[c] \notin {"closed", "aborted"} /\ wsPc'[c] \in {"closed", "aborted"}) =>
                /\ wsListenPc' = wsListenPc
                /\ \A d \in Conns \ {c} : wsPc'[d] = wsPc[d]
      ]_vars

\* C30: the step in which a subscribed connection takes a batch of n changes
\* writes n frames, the i-th being PX with the coordinates and the color of
\* the batch's i-th change; for an empty batch it writes none; and the
\* connection stays in its loop, with its subscription and its preference.
C30_BatchFramesInOrder ==
    [][\A c \in Conns :
          (pc[c] = "loop" /\ data_subscription[c] = "unseen"
                /\ data_subscription'[c] = "seen") =>
                /\ Len(out'[c]) = Len(publisherValue)
                /\ \A i \in 1..Len(publisherValue) :
                      /\ out'[c][i].kind = "Px"
                      /\ out'[c][i].x = publisherValue[i].x
                      /\ out'[c][i].y = publisherValue[i].y
                      /\ out'[c][i].color = publisherValue[i].color
                /\ publisherValue = <<>> => out'[c] = <<>>
                /\ pc'[c] = "loop"
                /\ subscribed'[c] = subscribed[c]
      ]_vars

\* A subscribed connection has written the two frames of a batch of two
\* changes and is back in its loop.
C30_Witness ==
    \E c \in Conns :
        /\ pc[c] = "loop"
        /\ subscribed[c]
        /\ data_subscription[c] = "seen"
        /\ Len(publisherValue) = 2
        /\ Len(out[c]) = 2
        /\ out[c][1].kind = "Px" /\ out[c][2].kind = "Px"
        /\ <<out[c][1].x, out[c][1].y>> = <<publisherValue[1].x, publisherValue[1].y>>
        /\ <<out[c][2].x, out[c][2].y>> = <<publisherValue[2].x, publisherValue[2].y>>

\* C31: a connection that holds a receiver ends the handling of a request
\* that is neither SUBSCRIBE nor UNSUBSCRIBE as a connection without one
\* does: it writes the response, if there is one, and nothing else, sends
\* nothing to the tracker and is back in its loop.
C31_RequestsAsWhenConnected ==
    [][\A c \in Conns :
          (/\ held[c] # "none"
           /\ request[c].kind \notin {"Subscribe", "Unsubscribe"}
           /\ pc[c] = "write"
           /\ pc'[c] # "write") =>
                /\ pc'[c] = "loop"
                /\ out'[c] = IF response[c] = NoFrame THEN <<>> ELSE <<response[c]>>
                /\ trackerMailbox' = trackerMailbox
      ]_vars

\* C32: a connection's task ends only in its own loop, by a read that
\* fails, whatever happens to the server actor; and a server that was shut
\* down accepts no connection.
C32_ConnectionsOutliveServer ==
    [][\A c \in Conns :
          /\ (pc'[c] # pc[c] /\ pc'[c] \in {"closed", "aborted"}) =>
                pc[c] = "loop" /\ pc'[c] = "closed"
          /\ (listenPc = "stopped" /\ pc[c] \in {"closed", "aborted"}) => pc'[c] = pc[c]
      ]_vars

\* C33: the pixmap has W*H colors in every step; and a step that changes
\* it is the coordinator handling a SetPixelMsg for a pixel inside of it,
\* which sets that pixel and no other, or handling a PutRawDataMsg with data
\* of W*H colors, which become the content.
C33_SingleWriter ==
    [][/\ Len(pixmap') = W * H
       /\ pixmap' # pixmap =>
            \/ \E c \in Conns :
                  /\ pc[c] = "px" /\ pc'[c] = "write"
                  /\ request[c].kind = "PxSet"
                  /\ request[c].x < W /\ request[c].y < H
                  /\ pixmap' = [pixmap EXCEPT
                        ![request[c].y * W + request[c].x + 1] = request[c].color]
            \/ /\ putMsg # NoPutRawData /\ putMsg' = NoPutRawData
               /\ Len(putMsg.data) = W * H
               /\ pixmap' = putMsg.data
      ]_vars

\* The pixmap has been replaced by a PutRawDataMsg and a pixel of it set
\* afterwards, while a connection is subscribed and the encoder has encoded.
C33_Witness ==
    /\ pixmap[1] = <<1, 2, 3>>
    /\ \A i \in 2..(W * H) : pixmap[i] = <<4, 5, 6>>
    /\ \E c \in Conns : subscribed[c]
    /\ encPc["rgb64"] = "done"

\* The bytes of a sequence of frames, each with its terminator.
RECURSIVE FrameBytesOf(_)
FrameBytesOf(frames) ==
    IF frames = <<>> THEN <<>>
    ELSE Head(frames) \o <<Newline>> \o FrameBytesOf(Tail(frames))

\* C34: the frames returned, each with its terminator, then the read buffer,
\* then what the socket holds are the bytes the peer wrote, in their order;
\* no frame returned holds a terminator; the step that returns a frame
\* reads nothing from the socket and takes the frame and its terminator,
\* and no more, from the front of the buffer; and the socket is read only
\* when the buffer holds no whole frame.
C34_FramesInOrder ==
    [][\A c \in Conns :
          /\ FrameBytesOf(stream'[c]) \o read_buffer'[c] \o sockIn'[c] = sentBytes'[c]
          /\ \A i \in 1..Len(stream'[c]) : FirstNewline(stream'[c][i], 1) = 0
          /\ stream'[c] # stream[c] =>
                /\ Len(stream'[c]) = Len(stream[c]) + 1
                /\ sockIn'[c] = sockIn[c]
                /\ read_buffer[c] =
                      stream'[c][Len(stream'[c])] \o <<Newline>> \o read_buffer'[c]
          /\ socketReads'[c] # socketReads[c] => FirstNewline(read_buffer[c], 1) = 0
      ]_vars

\* One connection has returned two frames after a single read of the
\* socket, and another has returned a frame that took two reads.
C34_Witness ==
    \E c, d \in Conns :
        /\ Len(stream[c]) = 2 /\ socketReads[c] = 1
        /\ stream[d] = <<<<"a", "a">>>> /\ socketReads[d] >= 2
        /\ read_buffer[d] = <<>>

\* handle_frame's answer to a request on a pixmap: the response frame, an
\* error frame, or none.
ExpectedResponse(req, data) ==
    CASE req.kind = "Malformed" -> ErrorFrame("parse")
      [] req.kind = "Size" -> SizeFrame(W, H)
      [] req.kind = "Help" -> HelpFrame
      [] req.kind = "PxGet" ->
            IF req.x < W /\ req.y < H
            THEN PxFrame(req.x, req.y, data[req.y * W + req.x + 1])
            ELSE ErrorFrame("pixmap")
      [] req.kind = "PxSet" ->
            IF req.x < W /\ req.y < H
            THEN NoFrame
            ELSE ErrorFrame("pixmap")
      [] OTHER -> NoFrame

\* C35: what handle_frame returns for a request is SIZE W H for SIZE, PX x y
\* with the pixel's color for PX x y, nothing for a PX x y RRGGBB that
\* succeeds, and one error frame for a request that does not parse or that
\* the coordinator refuses; and the connection writes that frame, and no
\* other frame before it, when there is one.
C35_OneResponsePerRequest ==
    [][\A c \in Conns :
          /\ (pc[c] # "write" /\ pc'[c] = "write") =>
                response'[c] = ExpectedResponse(request'[c], pixmap)
          /\ (pc[c] = "write" /\ pc'[c] # "write") =>
                IF response[c] = NoFrame
                THEN \A i \in 1..Len(out'[c]) :
                         out'[c][i].kind \in {"Subscribed", "Unsubscribed"}
                ELSE /\ out'[c] # <<>>
                     /\ out'[c][1] = response[c]
                     /\ \A i \in 2..Len(out'[c]) :
                           out'[c][i].kind \in {"Subscribed", "Unsubscribed"}
      ]_vars

\* A connection has its answer to PX x y at hand, with the color another
\* request wrote, and a connection has written SIZE W H as its only frame.
C35_Witness ==
    /\ \E c \in Conns :
          /\ pc[c] = "write"
          /\ request[c].kind = "PxGet"
          /\ response[c].kind = "Px"
          /\ response[c].color # Black
    /\ \E d \in Conns : out[d] = <<SizeFrame(W, H)>>

\* C36: a connection asks the tracker for a receiver, and writes
\* SUBSCRIBED, only for a SUBSCRIBE request that it handles while it has no
\* receiver.
C36_SubscribedOnlyOnSubscribe ==
    [][\A c \in Conns :
          /\ (pc[c] = "write" /\ pc'[c] = "sub") =>
                /\ request[c].kind = "Subscribe"
                /\ held[c] = "none"
          /\ (pc[c] = "sub" /\ pc'[c] = "loop") =>
                /\ request[c].kind = "Subscribe"
                /\ held[c] = "none"
      ]_vars

\* C37: a connection that is about to start an iteration of its loop has a
\* receiver in its field exactly when its preference is to be subscribed.
C37_ReceiverIffSubscribed ==
    \A c \in Conns :
        pc[c] = "loop" => (data_subscription[c] # "none" <=> subscribed[c])

\* C38: the thread never waits in the tracker's publish for a lock that a
\* connection holds while it waits to be scheduled on that thread.
C38_PublishNeverWaits ==
    ~(threadBlocked /\ \E c \in Conns : HoldsRef(c))

\* C39: the tracker's set holds at most W * H changes, and each of them
\* has coordinates inside the pixmap.
C39_ChangesWithinPixmap ==
    /\ Cardinality(changes) <= W * H
    /\ \A ch \in changes : ch.coordinates[1] < W /\ ch.coordinates[2] < H

\* C40: when write_frame has returned Ok, every byte of the encoded frame,
\* its terminator included, has been handed to the socket.
C40_FrameWrittenCompletely ==
    \A c \in Conns : writeResult[c] = "Ok" => writeBuf[c] = <<>>

====
